---- MODULE Spec2Model ----
\* Model of the entity-event simulation kernel of spacegame (src/src/sys.rs):
\* the map indexing, movement, openable, lock, operable and visibility
\* systems driven by the GameEvent queue, one tick after another, and the
\* methods of the Lockable component (src/src/components.rs).
EXTENDS Integers, Sequences, FiniteSets, TLC

\* ------------------------------------------------------------------ bounds
Width == 4
Height == 4
NumFloors == 2
NumItems == 4
MaxQueue == 2
MaxEvents == 2

\* ------------------------------------------------------------ positions
Position(x, y, z) == [x |-> x, y |-> y, z |-> z]

\* An entity that has no Position component (carried or stored away).
NoPosition == [x |-> -1, y |-> -1, z |-> -1]

Floors == 0 .. (NumFloors - 1)
TileIndexes == 0 .. (Width * Height - 1)

\* Map::to_index: the cell of (x, y) in the row-major tile vectors.
to_index(x, y) == y * Width + x

\* ------------------------------------------------------------- the map
\* The terrain of every floor: a wall border around an open room, an
\* up-stairway at (1,1) on the ground floor whose portal leads to the
\* stairway at (2,2) one floor up (and back), and a plain stairwell at (1,2)
\* on every floor that has no portal entry.
TileTypeAt(x, y, z) ==
    IF x = 0 \/ y = 0 \/ x = Width - 1 \/ y = Height - 1 THEN "Wall"
    ELSE IF x = 1 /\ y = 2 THEN "Stairway"
    ELSE IF x = 1 /\ y = 1 /\ z = 0 THEN "Stairway"
    ELSE IF x = 2 /\ y = 2 /\ z = 1 THEN "Stairway"
    ELSE "Floor"

\* model.levels[z].tiles[i].ttype
tiles == [z \in Floors |-> [i \in TileIndexes |->
            TileTypeAt(i % Width, i \div Width, z)]]

\* model.portals: (x,y,z) of a stairway -> destination
portals == (Position(1, 1, 0) :> Position(2, 2, 1))
        @@ (Position(2, 2, 1) :> Position(1, 1, 0))

\* Map::update_tilemaps: what the terrain alone blocks / hides.
TerrainBlocks(ttype) == ttype = "Wall"
TerrainOpaque(ttype) == ttype = "Wall"

\* ------------------------------------------------------------- entities
Player == <<"Pleyeur", 0>>
LMR == <<"LMR", 0>>
Door == <<"door", 0>>
Door2 == <<"door", 1>>
Doors == {Door, Door2}
Snack(i) == <<"snack", i>>
Items == {Snack(i) : i \in 1 .. NumItems}
Planq == <<"PLANQ", 0>>
Key(i) == <<"key", i>>
Keys == {Key(1), Key(2)}

\* Entity::PLACEHOLDER: the entity id that stands for nobody.
Placeholder == <<"PLACEHOLDER", 0>>
Entities == {Player, LMR} \cup Doors \cup Items \cup {Planq}

\* The entities that carry a Portable component.
Portables == Items \cup {Planq}

\* The Name component; every entity carries a name of its own.
NameOf(e) == e

\* The order in which a query hands out the entities.
QueryOrder ==
    <<Player, LMR, Door>> \o [i \in 1 .. NumItems |-> Snack(i)] \o <<Door2>>

Directions == {"N", "NW", "W", "SW", "S", "SE", "E", "NE", "UP", "DOWN"}

\* impl fmt::Display for Direction
DirectionText(dir) ==
    CASE dir = "N" -> "North" [] dir = "NW" -> "Northwest"
      [] dir = "W" -> "West" [] dir = "SW" -> "Southwest"
      [] dir = "S" -> "South" [] dir = "SE" -> "Southeast"
      [] dir = "E" -> "East" [] dir = "NE" -> "Northeast"
      [] dir = "UP" -> "Up" [] dir = "DOWN" -> "Down"

VARIABLES
    posn,           \* Position component of every entity (NoPosition: none)
    p_posn_res,     \* the Position resource mirroring the player's position
    dirty,          \* Viewshed.dirty of the entities that can see
    obstructive,    \* the entities carrying the Obstructive tag
    opaque,         \* Opaque.opaque of the entities that have the component
    door_open,      \* Openable.is_open of every door
    door_glyph,     \* Renderable.glyph of the door
    blocked_tiles,  \* model.levels[z].blocked_tiles
    opaque_tiles,   \* model.levels[z].opaque_tiles
    revealed_tiles, \* model.levels[z].revealed_tiles
    visible_tiles,  \* Viewshed.visible_tiles of the entities that can see
    events,         \* the GameEvents of the current tick
    msglog,         \* the player channel of the MessageLog
    mv_trace,       \* what movement_system did with each event of its pass
    mv_unread,      \* events the last movement pass left unread
    pc,             \* the system that runs next in the tick
    sent,           \* GameEvents sent so far
    fault,          \* a system panicked
    lockable,       \* Lockable {is_locked, key} of the entities that have one
    keys,           \* Key.key_id and Portable.carrier of every key
    device,         \* Device of the PLANQ
    lock_obj,       \* a Lockable value whose methods are called directly
    lock_calls,     \* the last calls made on lock_obj, latest last
    sched,          \* the systems of a tick, in the order they run
    carrier,        \* Portable.carrier of the snacks and of the PLANQ
    despawned,      \* the entities that have been removed from the world
    planq,          \* the PlanqData resource
    planq_log,      \* the planq channel of the MessageLog
    procs,          \* the PlanqProcess entities, in the order of their ids
    samplers,       \* the DataSampleTimer entities, in the order of their ids
    monitor,        \* the PlanqMonitor resource
    pevents,        \* the PlanqEvents of the current tick
    time,           \* the Time resource: this frame's delta and the clock
    rng,            \* the RngComponent of the PLANQ: its place in its stream
    state,          \* the GameSettings resource: the engine's mode
    mode_trace,     \* the mode after each event of the last engine pass
    probe,          \* the latest direct call of a method, with what it gave
    door_stuck      \* Openable.is_stuck of every door

vars == <<posn, p_posn_res, dirty, obstructive, opaque, door_open, door_glyph,
          blocked_tiles, opaque_tiles, revealed_tiles, visible_tiles, events,
          msglog, mv_trace, mv_unread, pc, sent, fault, lockable, keys,
          device, lock_obj, lock_calls, sched, carrier, despawned, planq,
          planq_log, procs, samplers, monitor, pevents, time, rng, state,
          mode_trace, probe, door_stuck>>

\* The state only the lock and device systems and direct method calls touch.
gear_vars == <<lockable, keys, device, lock_obj, lock_calls>>

\* The state the systems of the map, the doors and the locks leave alone.
kit_vars == <<sched, carrier, despawned, planq, planq_log, procs, samplers,
              monitor, pevents, time, rng, state, mode_trace, probe,
              door_stuck>>

\* The state of the engine and of the direct calls.
bench_vars == <<state, mode_trace, probe>>

\* The state of the PLANQ's software.
planq_vars == <<planq, planq_log, procs, samplers, monitor, pevents, time,
                rng>>

\* ------------------------------------------------------------ the tick
\* It is the turn of system s: the first system of the schedule runs once
\* the input layer has sent its events.
Turn(s) == IF sched[1] = s THEN pc = "input" ELSE pc = s

\* The system that runs after s; after the last one the input layer.
After(s) ==
    LET i == CHOOSE j \in DOMAIN sched : sched[j] = s
    IN  IF i = Len(sched) THEN "input" ELSE sched[i + 1]


\* ------------------------------------------------------------- messages
\* A narration: the format string and the values substituted into it.
Message(text, dir, names, ttype) ==
    [text |-> text, dir |-> dir, names |-> names, ttype |-> ttype]

\* --------------------------------------------------------------- events
MoveEvents == {[etype |-> "PlayerMove", dir |-> d, context |-> <<>>] :
                 d \in Directions}
DoorEvents == {[etype |-> t, dir |-> "X", context |-> <<Player, Door>>] :
                 t \in {"ActorOpen", "ActorClose"}}
GameEvents == MoveEvents \cup DoorEvents

\* ------------------------------------------------------ movement_system
\* The differences with north-east taken for south-east.
DirectionDelta_Mirrored(dir) ==
    CASE dir = "N" -> <<0, -1, 0>> [] dir = "NW" -> <<-1, -1, 0>>
      [] dir = "W" -> <<-1, 0, 0>> [] dir = "SW" -> <<-1, 1, 0>>
      [] dir = "S" -> <<0, 1, 0>> [] dir = "SE" -> <<1, 1, 0>>
      [] dir = "E" -> <<1, 0, 0>> [] dir = "NE" -> <<1, 1, 0>>
      [] dir = "UP" -> <<0, 0, 1>> [] dir = "DOWN" -> <<0, 0, -1>>

\* The x/y/z differences of a direction.
DirectionDelta(dir) ==
    CASE dir = "N" -> <<0, -1, 0>> [] dir = "NW" -> <<-1, -1, 0>>
      [] dir = "W" -> <<-1, 0, 0>> [] dir = "SW" -> <<-1, 1, 0>>
      [] dir = "S" -> <<0, 1, 0>> [] dir = "SE" -> <<1, 1, 0>>
      [] dir = "E" -> <<1, 0, 0>> [] dir = "NE" -> <<1, -1, 0>>
      [] dir = "UP" -> <<0, 0, 1>> [] dir = "DOWN" -> <<0, 0, -1>>

IsVertical(dir) == dir = "UP" \/ dir = "DOWN"

\* let mut target = Position{x: p_pos.x + xdiff, ...}
DesiredTarget(p_pos, dir) ==
    Position(p_pos.x + DirectionDelta(dir)[1],
             p_pos.y + DirectionDelta(dir)[2],
             p_pos.z + DirectionDelta(dir)[3])

\* model.levels[z as usize] is an element of the floor stack.
LevelExists(z) == z \in Floors

\* let t_index = model.levels[target.z as usize].to_index(target.x, target.y):
\* taken from the desired target, before any portal is looked up.
TargetIndex(desired) == to_index(desired.x, desired.y)

\* if target.z < 0 || target.z as usize >= model.levels.len()
InvalidZLevel(z) == z < 0 \/ z >= NumFloors

\* model.levels[p_pos.z].tiles[p_index].ttype != TileType::Stairway
NotOnStairway(p_pos) ==
    tiles[p_pos.z][to_index(p_pos.x, p_pos.y)] # "Stairway"

\* Mutation: the two stairway narrations swapped.
StairwayFeedback_Swapped(zdiff) ==
    IF zdiff = 1
    THEN Message("There is nothing here to descend.", "", <<>>, "")
    ELSE Message("There is nothing here to ascend.", "", <<>>, "")

\* feedback = "There is nothing here to " + "ascend." / "descend."
StairwayFeedback(zdiff) ==
    IF zdiff = 1
    THEN Message("There is nothing here to ascend.", "", <<>>, "")
    ELSE Message("There is nothing here to descend.", "", <<>>, "")

\* Mutation: the portal table is never consulted.
PortalTarget_Ignored(p_pos, desired) == desired

\* if let Some(actual) = model.portals.get(&(p_pos.x, p_pos.y, p_pos.z))
PortalTarget(p_pos, desired) ==
    IF p_pos \in DOMAIN portals THEN portals[p_pos] ELSE desired

\* The non-player entities with a Position, in query order (enty_query).
RECURSIVE EntyQueryFrom(_, _)
EntyQueryFrom(ps, i) ==
    IF i > Len(QueryOrder) THEN <<>>
    ELSE LET e == QueryOrder[i]
         IN (IF e # Player /\ ps[e] # NoPosition THEN <<e>> ELSE <<>>)
            \o EntyQueryFrom(ps, i + 1)

\* for guy in enty_query.iter() { if guy.0 == &target { ... } }
EntitiesAt(ps, where) ==
    SelectSeq(EntyQueryFrom(ps, 1), LAMBDA e : ps[e] = where)

\* The narration of a rejected move: the first entity found at the target,
\* or else the type of the tile at t_index on the target's floor.
BlockedFeedback(ps, dir, target, t_index) ==
    IF EntitiesAt(ps, target) # <<>>
    THEN Message("The way {} is blocked by a {}.", DirectionText(dir),
                 <<NameOf(EntitiesAt(ps, target)[1])>>, "")
    ELSE Message("The way {} is blocked by the {}.", DirectionText(dir),
                 <<>>, tiles[target.z][t_index])

\* The return statements of the blocked branch end the whole pass.
BlockedMoveEndsPass == TRUE

\* p_view.dirty = true
DirtyAfterMove(was_dirty) == TRUE

\* Mutation: the Position resource is not updated with the player.
ResourceAfterMove_Stale(old_res, target) == old_res

\* (p_posn_res.x, p_posn_res.y, p_posn_res.z) = (target.x, target.y, target.z)
ResourceAfterMove(old_res, target) == target

\* loop { text.push_str(contents.pop().unwrap()); ... }: last pushed first.
RECURSIVE PopAll(_)
PopAll(contents) ==
    IF contents = <<>> THEN <<>>
    ELSE <<contents[Len(contents)]>>
         \o PopAll(SubSeq(contents, 1, Len(contents) - 1))

\* Mutation: the short summary stops one entity early.
ContentsFeedback_OffByOne(contents) ==
    IF contents = <<>> THEN <<>>
    ELSE IF Len(contents) < 3
    THEN <<Message("There's a {} here.", "", PopAll(contents), "")>>
    ELSE <<Message("There's some stuff here on the ground.", "", <<>>, "")>>

\* The summary of what lies on the tile the player moved onto.
ContentsFeedback(contents) ==
    IF contents = <<>> THEN <<>>
    ELSE IF Len(contents) <= 3
    THEN <<Message("There's a {} here.", "", PopAll(contents), "")>>
    ELSE <<Message("There's some stuff here on the ground.", "", <<>>, "")>>


\* What one pass of the loop body left behind for one PlayerMove event.
MoveResult(m, dir, desired, target, t_index, outcome, pos, res, drt, said) ==
    [dir |-> dir, from |-> m.pos, res0 |-> m.res, dirty0 |-> m.dirty,
     desired |-> desired, target |-> target, t_index |-> t_index,
     outcome |-> outcome, to |-> pos, res1 |-> res, dirty1 |-> drt,
     said |-> said]

\* The body of the PlayerMove arm for one event; m holds the player's
\* Position, the Position resource and the player's Viewshed.dirty.
\*   "panic"     an index out of bounds or a failed assert!
\*   "invalid_z" continue: the z-level does not exist
\*   "no_stairs" continue: not standing on a stairway
\*   "blocked"   return: the tile at t_index is blocked
\*   "moved"     the player now stands on the target
MoveOne(ps, blocked, m, dir) ==
    LET desired == DesiredTarget(m.pos, dir)
        t_index == TargetIndex(desired)
        target  == IF IsVertical(dir) THEN PortalTarget(m.pos, desired)
                   ELSE desired
    IN  IF ~LevelExists(desired.z)
        THEN MoveResult(m, dir, desired, desired, -1, "panic",
                        m.pos, m.res, m.dirty, <<>>)
        ELSE IF IsVertical(dir) /\ InvalidZLevel(desired.z)
        THEN MoveResult(m, dir, desired, desired, t_index, "invalid_z",
                        m.pos, m.res, m.dirty, <<>>)
        ELSE IF IsVertical(dir) /\ NotOnStairway(m.pos)
        THEN MoveResult(m, dir, desired, desired, t_index, "no_stairs",
                        m.pos, m.res, m.dirty,
                        <<StairwayFeedback(DirectionDelta(dir)[3])>>)
        ELSE IF ~LevelExists(target.z) \/ t_index \notin TileIndexes
        THEN MoveResult(m, dir, desired, target, t_index, "panic",
                        m.pos, m.res, m.dirty, <<>>)
        ELSE IF blocked[target.z][t_index]
        THEN MoveResult(m, dir, desired, target, t_index, "blocked",
                        m.pos, m.res, m.dirty,
                        <<BlockedFeedback(ps, dir, target, t_index)>>)
        ELSE MoveResult(m, dir, desired, target, t_index, "moved",
                        target, ResourceAfterMove(m.res, target),
                        DirtyAfterMove(m.dirty),
                        ContentsFeedback(
                            [i \in 1 .. Len(EntitiesAt(ps, target)) |->
                                NameOf(EntitiesAt(ps, target)[i])]))

\* for event in ereader.iter() { match event.etype { PlayerMove(dir) => ... } }
\* from event i on, with the results so far in trace.
RECURSIVE MovementPass(_, _, _, _, _, _)
MovementPass(ps, blocked, m, evs, i, trace) ==
    IF i > Len(evs)
    THEN [m |-> m, trace |-> trace, unread |-> <<>>, panicked |-> FALSE]
    ELSE IF evs[i].etype # "PlayerMove"
    THEN MovementPass(ps, blocked, m, evs, i + 1, trace)
    ELSE LET r == MoveOne(ps, blocked, m, evs[i].dir)
             after == [pos |-> r.to, res |-> r.res1, dirty |-> r.dirty1]
             rest == SubSeq(evs, i + 1, Len(evs))
         IN  IF r.outcome = "panic"
             THEN [m |-> after, trace |-> Append(trace, r),
                   unread |-> rest, panicked |-> TRUE]
             ELSE IF r.outcome = "blocked" /\ BlockedMoveEndsPass
             THEN [m |-> after, trace |-> Append(trace, r),
                   unread |-> rest, panicked |-> FALSE]
             ELSE MovementPass(ps, blocked, after, evs, i + 1,
                               Append(trace, r))

\* Every narration of a pass, in the order it was told.
RECURSIVE SaidIn(_)
SaidIn(trace) ==
    IF trace = <<>> THEN <<>>
    ELSE trace[1].said \o SaidIn(Tail(trace))

movement_system ==
    /\ Turn("movement") /\ ~fault
    /\ LET run == MovementPass(posn, blocked_tiles,
                      [pos |-> posn[Player], res |-> p_posn_res,
                       dirty |-> dirty[Player]], events, 1, <<>>)
       IN  /\ posn' = [posn EXCEPT ![Player] = run.m.pos]
           /\ p_posn_res' = run.m.res
           /\ dirty' = [dirty EXCEPT ![Player] = run.m.dirty]
           /\ msglog' = msglog \o SaidIn(run.trace)
           /\ mv_trace' = run.trace
           /\ mv_unread' = run.unread
           /\ fault' = run.panicked
    /\ pc' = After("movement")
    /\ UNCHANGED kit_vars
    /\ UNCHANGED gear_vars
    /\ UNCHANGED <<obstructive, opaque, door_open, door_glyph, blocked_tiles,
                   opaque_tiles, revealed_tiles, visible_tiles, events, sent>>


\* -------------------------------------------------- map_indexing_system
\* Mutation: a blocking entity clears the bit of its tile.
BlockerValue_Cleared(old) == FALSE

\* floor.blocked_tiles[index] = true
BlockerValue(old) == TRUE

\* floor.update_tilemaps(): the tilemaps as the terrain alone gives them.
TerrainBlocked(f) == [i \in TileIndexes |-> TerrainBlocks(tiles[f][i])]
TerrainOpaqueMap(f) == [i \in TileIndexes |-> TerrainOpaque(tiles[f][i])]

\* for guy in blocker_query.iter_mut() { if guy.z != f_index { continue; } ... }
RECURSIVE MarkBlockers(_, _, _)
MarkBlockers(row, f, i) ==
    IF i > Len(QueryOrder) THEN row
    ELSE LET e == QueryOrder[i]
             index == to_index(posn[e].x, posn[e].y)
         IN  IF e \in obstructive /\ posn[e] # NoPosition /\ posn[e].z = f
             THEN MarkBlockers(
                    [row EXCEPT ![index] = BlockerValue(row[index])], f, i + 1)
             ELSE MarkBlockers(row, f, i + 1)

\* for guy in opaque_query.iter_mut() { ... opaque_tiles[index] = guy.1.opaque }
RECURSIVE MarkOpaque(_, _, _)
MarkOpaque(row, f, i) ==
    IF i > Len(QueryOrder) THEN row
    ELSE LET e == QueryOrder[i]
             index == to_index(posn[e].x, posn[e].y)
         IN  IF e \in DOMAIN opaque /\ posn[e] # NoPosition /\ posn[e].z = f
             THEN MarkOpaque([row EXCEPT ![index] = opaque[e]], f, i + 1)
             ELSE MarkOpaque(row, f, i + 1)

map_indexing_system ==
    /\ Turn("map_indexing") /\ ~fault
    /\ blocked_tiles' = [f \in Floors |-> MarkBlockers(TerrainBlocked(f), f, 1)]
    /\ opaque_tiles' = [f \in Floors |-> MarkOpaque(TerrainOpaqueMap(f), f, 1)]
    /\ pc' = After("map_indexing")
    /\ UNCHANGED kit_vars
    /\ UNCHANGED gear_vars
    /\ UNCHANGED <<posn, p_posn_res, dirty, obstructive, opaque, door_open,
                   door_glyph, revealed_tiles, visible_tiles, events, msglog,
                   mv_trace, mv_unread, sent, fault>>

\* ------------------------------------------------------ openable_system
\* With<CanOpen>: the entities that may act on a door.
CanOpen == {Player, LMR}

\* Mutation: door_query yields the first door only.
IsDoor_First(e) == e = Door /\ posn[e] # NoPosition

\* The entities door_query yields: Position, Openable, Renderable, Opaque.
IsDoor(e) == e \in Doors /\ posn[e] # NoPosition

\* The narration of an open (opening = TRUE) or close action.
DoorFeedback(actor, opening) ==
    IF actor = Player
    THEN IF opening
         THEN Message("The door slides open at your touch.", "", <<>>, "")
         ELSE Message("The door slides shut.", "", <<>>, "")
    ELSE IF opening
         THEN Message("The {} opens a door.", "", <<NameOf(actor)>>, "")
         ELSE Message("The {} closes a door.", "", <<NameOf(actor)>>, "")

\* Both arms writing the opacity of the open arm.
OpaqueWhen_Cleared(opening) == FALSE

\* door.4.opaque = false (ActorOpen), door.4.opaque = true (ActorClose)
OpaqueWhen(opening) == ~opening

\* The loop body for one ActorOpen / ActorClose event with a context.
OpenOne(d, ev) ==
    LET actor == ev.context[1]
        object == ev.context[2]
        opening == ev.etype = "ActorOpen"
        hit == IsDoor(object)
    IN  IF actor \notin CanOpen \/ posn[actor] = NoPosition
        THEN [d EXCEPT !.panicked = TRUE]
        ELSE [is_open |-> IF hit THEN [d.is_open EXCEPT ![object] = opening]
                          ELSE d.is_open,
              glyph |-> IF hit
                        THEN [d.glyph EXCEPT ![object] =
                                IF opening THEN "open_glyph" ELSE "closed_glyph"]
                        ELSE d.glyph,
              opaque |-> IF hit
                         THEN [d.opaque EXCEPT ![object] = OpaqueWhen(opening)]
                         ELSE d.opaque,
              obstructive |-> IF hit
                              THEN (IF opening THEN d.obstructive \ {object}
                                    ELSE d.obstructive \cup {object})
                              ELSE d.obstructive,
              dirty |-> IF actor \in DOMAIN d.dirty
                        THEN [d.dirty EXCEPT ![actor] = TRUE] ELSE d.dirty,
              log |-> Append(d.log, DoorFeedback(actor, opening)),
              panicked |-> FALSE]

RECURSIVE OpenablePass(_, _, _)
OpenablePass(d, evs, i) ==
    IF i > Len(evs) THEN d
    ELSE IF evs[i].etype \notin {"ActorOpen", "ActorClose"}
    THEN OpenablePass(d, evs, i + 1)
    ELSE IF evs[i].context = <<>>
    THEN OpenablePass(d, evs, i + 1)
    ELSE LET after == OpenOne(d, evs[i])
         IN  IF after.panicked THEN after
             ELSE OpenablePass(after, evs, i + 1)

openable_system ==
    /\ Turn("openable") /\ ~fault
    /\ LET run == OpenablePass(
                      [is_open |-> door_open, glyph |-> door_glyph,
                       opaque |-> opaque, obstructive |-> obstructive,
                       dirty |-> dirty, log |-> msglog, panicked |-> FALSE],
                      events, 1)
       IN  /\ door_open' = run.is_open
           /\ door_glyph' = run.glyph
           /\ opaque' = run.opaque
           /\ obstructive' = run.obstructive
           /\ dirty' = run.dirty
           /\ msglog' = run.log
           /\ fault' = run.panicked
    /\ pc' = After("openable")
    /\ UNCHANGED kit_vars
    /\ UNCHANGED gear_vars
    /\ UNCHANGED <<posn, p_posn_res, blocked_tiles, opaque_tiles,
                   revealed_tiles, visible_tiles, events, mv_trace, mv_unread,
                   sent>>

\* ---------------------------------------------------- visibility_system
\* Viewshed.range as the player and the LMR are spawned with it.
PlayerRange == 8
LMRRange == 5
ViewRange(e) == IF e = Player THEN PlayerRange ELSE LMRRange

\* posn_to_point: a Position without its floor.
Point(x, y) == [x |-> x, y |-> y]
posn_to_point(p) == Point(p.x, p.y)

\* The points a field-of-view scan may hand back: the grid and the ring of
\* cells right outside it.
SightWindow == {Point(x, y) : x \in -1 .. Width, y \in -1 .. Height}

\* p.x >= 0 && p.x < map.width && p.y >= 0 && p.y < map.height
InMapBounds(p) == p.x >= 0 /\ p.x < Width /\ p.y >= 0 /\ p.y < Height

\* The lattice points strictly between the eye and a point on the straight
\* line that joins them.
Between(eye, p) ==
    {q \in SightWindow :
        /\ q # eye /\ q # p
        /\ (q.x - eye.x) * (p.y - eye.y) = (q.y - eye.y) * (p.x - eye.x)
        /\ (q.x - eye.x) * (q.x - p.x) <= 0
        /\ (q.y - eye.y) * (q.y - p.y) <= 0}

\* The lines of sight from every point, worked out once.
LinesOfSight ==
    [ex \in -1 .. Width |-> [ey \in -1 .. Height |->
        [px \in -1 .. Width |-> [py \in -1 .. Height |->
            Between([x |-> ex, y |-> ey], [x |-> px, y |-> py])]]]]

\* field_of_view(center, range, map): the points within range of the eye
\* that no opaque cell on the line of sight hides.
field_of_view(eye, range, row) ==
    {p \in SightWindow :
        /\ (p.x - eye.x) * (p.x - eye.x) + (p.y - eye.y) * (p.y - eye.y)
             <= range * range
        /\ \A q \in LinesOfSight[eye.x][eye.y][p.x][p.y] :
              InMapBounds(q) /\ ~row[to_index(q.x, q.y)]}

\* Mutation: the scan's points are kept as they come.
Retained_Unfiltered(points) == points

\* viewshed.visible_tiles.retain(|p| ...)
Retained(points) == {p \in points : InMapBounds(p)}

\* Mutation: seeing a tile flips its revealed bit.
RevealValue_Flipped(old) == ~old

\* map.revealed_tiles[map_index] = true
RevealValue(old) == TRUE

\* if let Some(_player) = player { for posn in &viewshed.visible_tiles ... }
Reveals(e) == e = Player

\* The (Viewshed, Position) pairs the query hands out.
Seers == {e \in DOMAIN dirty : posn[e] # NoPosition}

\* The visible tiles of a dirty Viewshed after the pass.
Recomputed(e) ==
    Retained(field_of_view(posn_to_point(posn[e]), ViewRange(e),
                           opaque_tiles[posn[e].z]))

\* The revealed bits of one floor after the pass has run for seer e.
RevealedBy(e, row) ==
    LET seen == {to_index(p.x, p.y) : p \in Recomputed(e)}
    IN  [i \in TileIndexes |->
            IF i \in seen THEN RevealValue(row[i]) ELSE row[i]]

\* for (mut viewshed, posn, player) in seers.iter_mut() { if viewshed.dirty ... }
RECURSIVE RevealPass(_, _, _)
RevealPass(row, f, i) ==
    IF i > Len(QueryOrder) THEN row
    ELSE LET e == QueryOrder[i]
         IN  IF e \in Seers /\ dirty[e] /\ Reveals(e) /\ posn[e].z = f
             THEN RevealPass(RevealedBy(e, row), f, i + 1)
             ELSE RevealPass(row, f, i + 1)

visibility_system ==
    /\ Turn("visibility") /\ ~fault
    /\ visible_tiles' = [e \in DOMAIN visible_tiles |->
                           IF e \in Seers /\ dirty[e] THEN Recomputed(e)
                           ELSE visible_tiles[e]]
    /\ revealed_tiles' = [f \in Floors |-> RevealPass(revealed_tiles[f], f, 1)]
    /\ dirty' = [e \in DOMAIN dirty |-> IF e \in Seers THEN FALSE ELSE dirty[e]]
    /\ pc' = After("visibility")
    /\ UNCHANGED kit_vars
    /\ UNCHANGED gear_vars
    /\ UNCHANGED <<posn, p_posn_res, obstructive, opaque, door_open,
                   door_glyph, blocked_tiles, opaque_tiles, events, msglog,
                   mv_trace, mv_unread, sent, fault>>

\* ------------------------------------------------------- the event queue
\* The input layer sends a GameEvent for the coming tick.
send_event(ev) ==
    /\ pc = "input" /\ ~fault
    /\ Len(events) < MaxQueue /\ sent < MaxEvents
    /\ events' = Append(events, ev)
    /\ sent' = sent + 1
    /\ UNCHANGED kit_vars
    /\ UNCHANGED gear_vars
    /\ UNCHANGED <<posn, p_posn_res, dirty, obstructive, opaque, door_open,
                   door_glyph, blocked_tiles, opaque_tiles, revealed_tiles,
                   visible_tiles, msglog, mv_trace, mv_unread, pc, fault>>

\* The queue is cleared once every system has had its pass.
event_update_system ==
    /\ Turn("update") /\ ~fault
    /\ events' = <<>>
    /\ mv_trace' = <<>>
    /\ mv_unread' = <<>>
    /\ pc' = After("update")
    /\ UNCHANGED kit_vars
    /\ UNCHANGED gear_vars
    /\ UNCHANGED <<posn, p_posn_res, dirty, obstructive, opaque, door_open,
                   door_glyph, blocked_tiles, opaque_tiles, revealed_tiles,
                   visible_tiles, msglog, sent, fault>>

\* ---------------------------------------------------------- lock_system
\* The order in which key_query hands out the keys.
KeyOrder == <<Key(1), Key(2)>>

\* No narration: the empty message string.
NoMessage == Message("", "", <<>>, "")

\* The narration of an ActorLock.
LockFeedback(actor, target) ==
    IF actor = Player
    THEN Message("You tap the LOCK button on the {}.", "",
                 <<NameOf(target)>>, "")
    ELSE Message("The {} locks the {}.", "",
                 <<NameOf(actor), NameOf(target)>>, "")

\* The narration of a key that turns the lock.
UnlockFeedback(actor, key, target) ==
    IF actor = Player
    THEN Message("Your {} unlocks the {}.", "",
                 <<NameOf(key), NameOf(target)>>, "")
    ELSE Message("The {} unlocks the {}.", "",
                 <<NameOf(actor), NameOf(target)>>, "")

WrongKeyFeedback == Message("You don't seem to have the right key.", "", <<>>, "")

\* for key in key_query.iter() { if key.1.carrier == actor.0 { push } }
CarriedKeys(ks, actor) ==
    SelectSeq(KeyOrder, LAMBDA k : ks[k].carrier = actor)

\* Mutation: every key turns every lock.
KeyFits_Any(key_id, lock_key) == TRUE

\* if key.1 == target.3.key
KeyFits(key_id, lock_key) == key_id = lock_key

\* for key in carried_keys.iter() { ... }: t is the target's lock state and
\* the message so far.
RECURSIVE TryKeys(_, _, _, _, _, _)
TryKeys(t, ks, carried, i, actor, target) ==
    IF i > Len(carried) THEN t
    ELSE IF KeyFits(ks[carried[i]].key_id, t.key)
    THEN TryKeys([t EXCEPT !.is_locked = FALSE,
                           !.message = UnlockFeedback(actor, carried[i], target)],
                 ks, carried, i + 1, actor, target)
    ELSE TryKeys([t EXCEPT !.message = IF actor = Player THEN WrongKeyFeedback
                                       ELSE t.message],
                 ks, carried, i + 1, actor, target)

\* Mutation: the LOCK button releases the lock.
LockedByButton_Released(old) == FALSE

\* target.3.is_locked = true
LockedByButton(old) == TRUE

\* The loop body for one ActorLock / ActorUnlock event with a context;
\* l holds the Lockables, the log and whether an unwrap has panicked.
LockOne(l, ks, ev) ==
    LET actor == ev.context[1]
        target == ev.context[2]
    IN  IF \/ actor \notin CanOpen \/ posn[actor] = NoPosition
           \/ target \notin DOMAIN l.lockable \/ posn[target] = NoPosition
        THEN [l EXCEPT !.panicked = TRUE]
        ELSE IF ev.etype = "ActorLock"
        THEN [l EXCEPT !.lockable[target].is_locked =
                            LockedByButton(l.lockable[target].is_locked),
                       !.log = Append(l.log, LockFeedback(actor, target))]
        ELSE LET carried == CarriedKeys(ks, actor)
                 tried == TryKeys([is_locked |-> l.lockable[target].is_locked,
                                   key |-> l.lockable[target].key,
                                   message |-> NoMessage],
                                  ks, carried, 1, actor, target)
             IN  IF carried = <<>> THEN l
                 ELSE [l EXCEPT !.lockable[target].is_locked = tried.is_locked,
                                !.log = IF tried.message # NoMessage
                                        THEN Append(l.log, tried.message)
                                        ELSE l.log]

RECURSIVE LockPass(_, _, _, _)
LockPass(l, ks, evs, i) ==
    IF i > Len(evs) THEN l
    ELSE IF evs[i].etype \notin {"ActorLock", "ActorUnlock"}
    THEN LockPass(l, ks, evs, i + 1)
    ELSE IF evs[i].context = <<>>
    THEN LockPass(l, ks, evs, i + 1)
    ELSE LET after == LockOne(l, ks, evs[i])
         IN  IF after.panicked THEN after
             ELSE LockPass(after, ks, evs, i + 1)

lock_system ==
    /\ Turn("lock") /\ ~fault
    /\ LET run == LockPass([lockable |-> lockable, log |-> msglog,
                            panicked |-> FALSE], keys, events, 1)
       IN  /\ lockable' = run.lockable
           /\ msglog' = run.log
           /\ fault' = run.panicked
    /\ pc' = After("lock")
    /\ UNCHANGED kit_vars
    /\ UNCHANGED <<posn, p_posn_res, dirty, obstructive, opaque, door_open,
                   door_glyph, blocked_tiles, opaque_tiles, revealed_tiles,
                   visible_tiles, events, mv_trace, mv_unread, sent, keys,
                   device, lock_obj, lock_calls>>

\* ------------------------------------------------------ operable_system
\* GameEventContext::is_invalid: a context that names nobody.
is_invalid(context) == context[1] = Placeholder \/ context[2] = Placeholder

\* Mutation: the power button leaves the switch as it is.
power_toggle_Stuck(dev) == dev

\* Device::power_toggle
power_toggle(dev) == [dev EXCEPT !.pw_switch = ~dev.pw_switch]

\* The loop body for one ItemUse event; u holds the Device and whether an
\* unwrap has panicked.
UseOne(u, ev) ==
    IF ev.context = <<>> THEN [u EXCEPT !.panicked = TRUE]
    ELSE IF is_invalid(ev.context) THEN u
    ELSE IF ev.context[2] # Planq THEN [u EXCEPT !.panicked = TRUE]
    ELSE IF ~u.device.pw_switch
    THEN [u EXCEPT !.device = power_toggle(u.device)]
    ELSE u

RECURSIVE OperablePass(_, _, _)
OperablePass(u, evs, i) ==
    IF i > Len(evs) THEN u
    ELSE IF evs[i].etype # "ItemUse" THEN OperablePass(u, evs, i + 1)
    ELSE LET after == UseOne(u, evs[i])
         IN  IF after.panicked THEN after
             ELSE OperablePass(after, evs, i + 1)

operable_system ==
    /\ Turn("operable") /\ ~fault
    /\ LET run == OperablePass([device |-> device, panicked |-> FALSE],
                               events, 1)
       IN  /\ device' = run.device
           /\ fault' = run.panicked
    /\ pc' = After("operable")
    /\ UNCHANGED kit_vars
    /\ UNCHANGED <<posn, p_posn_res, dirty, obstructive, opaque, door_open,
                   door_glyph, blocked_tiles, opaque_tiles, revealed_tiles,
                   visible_tiles, events, msglog, mv_trace, mv_unread, sent,
                   lockable, keys, lock_obj, lock_calls>>

\* ------------------------------------------------------------- Lockable
\* The key values tried on a lock: 0 stands for "no new key".
MaxKeyId == 2
KeyIds == 0 .. MaxKeyId

\* Lockable::unlock(test_key): the Lockable afterwards and the value returned.
unlock(lk, test_key) ==
    IF test_key = lk.key
    THEN [self |-> [lk EXCEPT !.is_locked = FALSE], ret |-> TRUE]
    ELSE [self |-> lk, ret |-> FALSE]

\* Mutation: locking always takes the key given.
lock_Overwrites(lk, new_key) ==
    [self |-> [is_locked |-> TRUE, key |-> new_key], ret |-> new_key]

\* Lockable::lock(new_key): the Lockable afterwards and the key returned.
lock(lk, new_key) ==
    LET key == IF new_key # 0 THEN new_key ELSE lk.key
    IN  [self |-> [is_locked |-> TRUE, key |-> key], ret |-> key]

\* The calls remembered: the latest two.
Remember(calls, call) ==
    IF Len(calls) < 2 THEN Append(calls, call) ELSE <<calls[2], call>>

call_unlock(k) ==
    /\ lock_obj' = unlock(lock_obj, k).self
    /\ lock_calls' = Remember(lock_calls,
                        [op |-> "unlock", arg |-> k, before |-> lock_obj,
                         ret |-> unlock(lock_obj, k).ret])
    /\ UNCHANGED kit_vars
    /\ UNCHANGED <<posn, p_posn_res, dirty, obstructive, opaque, door_open,
                   door_glyph, blocked_tiles, opaque_tiles, revealed_tiles,
                   visible_tiles, events, msglog, mv_trace, mv_unread, pc,
                   sent, fault, lockable, keys, device>>

call_lock(n) ==
    /\ lock_obj' = lock(lock_obj, n).self
    /\ lock_calls' = Remember(lock_calls,
                        [op |-> "lock", arg |-> n, before |-> lock_obj,
                         ret |-> lock(lock_obj, n).ret])
    /\ UNCHANGED kit_vars
    /\ UNCHANGED <<posn, p_posn_res, dirty, obstructive, opaque, door_open,
                   door_glyph, blocked_tiles, opaque_tiles, revealed_tiles,
                   visible_tiles, events, msglog, mv_trace, mv_unread, pc,
                   sent, fault, lockable, keys, device>>

\* --------------------------------------------------------------- timers
\* Timer::new(duration, TimerMode::Once)
NewTimer(duration) ==
    [elapsed |-> 0, duration |-> duration, finished |-> FALSE,
     just_finished |-> FALSE]

\* Timer::tick: a finished one-shot timer only forgets that it has just
\* finished; a running one advances, and stops at its duration.
tick(t, delta) ==
    IF t.finished THEN [t EXCEPT !.just_finished = FALSE]
    ELSE IF t.elapsed + delta >= t.duration
    THEN [t EXCEPT !.elapsed = t.duration, !.finished = TRUE,
                   !.just_finished = TRUE]
    ELSE [t EXCEPT !.elapsed = t.elapsed + delta, !.just_finished = FALSE]

\* Timer::reset
reset(t) ==
    [t EXCEPT !.elapsed = 0, !.finished = FALSE, !.just_finished = FALSE]

\* ---------------------------------------------------------- the PLANQ
\* PlanqEvent::new(etype); lvl is the stage of a BootStage and 0 otherwise.
PlanqEvent(etype, lvl) == [etype |-> etype, lvl |-> lvl]

\* PlanqProcess::new().time(3): the seconds a boot stage takes.
BootTime == 3

\* DataSampleTimer::new(): the seconds between two samples of a source.
SampleTime == 1

\* Openable::new: no door is stuck.
DoorsAtRest == door_stuck = [d \in Doors |-> FALSE]

\* GameSettings as the game starts to run.
Settings == [mode |-> "Running", mode_changed |-> FALSE]

\* The engine runs the game, and no method is called directly.
EngineAtRest ==
    /\ state = Settings
    /\ mode_trace = <<>>
    /\ probe = <<>>

\* PlanqData::new(), PlanqMonitor::new() and an empty planq channel: the
\* PLANQ is off and runs nothing.
PlanqListing(list) ==
    /\ planq = [power_is_on |-> FALSE, show_terminal |-> FALSE,
                cpu_mode |-> "Offline", boot_stage |-> 0,
                proc_table |-> <<>>, is_carried |-> FALSE,
                show_cli_input |-> FALSE, show_inventory |-> FALSE,
                action_mode |-> "Default", inventory_list |-> list,
                stdout |-> <<>>, player_loc |-> NoPosition]
    /\ planq_log = <<>>
    /\ procs = <<>>
    /\ samplers = <<>>
    /\ monitor = [status_bars |-> <<>>, raw_data |-> <<>>]
    /\ pevents = <<>>
    /\ time = [delta |-> 0, clock |-> 0]
    /\ rng = 0

\* The device as spawned: nothing listed.
PlanqAtRest == PlanqListing(<<>>)

\* ----------------------------------------------- item_collection_system
\* Query<(Entity, &Name, &Position, &Container, Option<&Player>)>: only
\* the player is spawned with a Container.
InContainerQuery(e) ==
    e = Player /\ e \notin despawned /\ posn[e] # NoPosition

\* Query<(Entity, &Name, &Portable, Option<&Position>)>
InItemQuery(e) == e \in Portables /\ e \notin despawned

\* The narration of an item that changes hands.
MoveFeedback(subject, object) ==
    IF subject = Player
    THEN Message("Obtained a {}.", "", <<NameOf(object)>>, "")
    ELSE Message("The {} takes a {}.", "",
                 <<NameOf(subject), NameOf(object)>>, "")

\* The narration of an item that is put down.
DropFeedback(subject, object) ==
    IF subject = Player
    THEN Message("Dropped a {}.", "", <<NameOf(object)>>, "")
    ELSE Message("The {} drops a {}.", "",
                 <<NameOf(subject), NameOf(object)>>, "")

\* .remove::<Position>()
PickedUp(old) == NoPosition

\* Mutation: a dropped item keeps its carrier.
Dropped_StillHeld(old) == old

\* .insert(Portable{carrier: Entity::PLACEHOLDER})
Dropped(old) == Placeholder

\* The loop body for one ItemMove / ItemDrop / ItemKILL event with a valid
\* context. The queries read the world as it was when the pass began; c
\* holds the world the queued commands build, the log and whether the pass
\* has panicked. The queue is applied in order when the system returns: a
\* command that inserts into an entity an earlier command despawned panics
\* there (c.broken), and the commands behind it are never applied.
CollectOne(c, ev) ==
    LET subject == ev.context[1]
        object == ev.context[2]
        told == IF ev.etype = "ItemMove"
                THEN Append(c.log, MoveFeedback(subject, object))
                ELSE IF ev.etype = "ItemDrop"
                THEN Append(c.log, DropFeedback(subject, object))
                ELSE c.log
    IN  IF ~InContainerQuery(subject) \/ ~InItemQuery(object)
        THEN [c EXCEPT !.panicked = TRUE]
        ELSE IF c.broken
        THEN [c EXCEPT !.log = told]
        ELSE IF ev.etype = "ItemKILL"
        THEN [c EXCEPT !.gone = c.gone \cup {object},
                       !.posn[object] = NoPosition]
        ELSE IF object \in c.gone
        THEN [c EXCEPT !.broken = TRUE, !.log = told]
        ELSE IF ev.etype = "ItemMove"
        THEN [c EXCEPT !.carrier[object] = subject,
                       !.posn[object] = PickedUp(c.posn[object]),
                       !.log = told]
        ELSE [c EXCEPT !.carrier[object] = Dropped(c.carrier[object]),
                       !.posn[object] = posn[subject],
                       !.log = told]

RECURSIVE CollectPass(_, _, _)
CollectPass(c, evs, i) ==
    IF i > Len(evs) THEN c
    ELSE IF evs[i].etype \notin {"ItemMove", "ItemDrop", "ItemKILL"}
    THEN CollectPass(c, evs, i + 1)
    ELSE IF evs[i].context = <<>>
    THEN CollectPass(c, evs, i + 1)
    ELSE IF is_invalid(evs[i].context)
    THEN CollectPass(c, evs, i + 1)
    ELSE LET after == CollectOne(c, evs[i])
         IN  IF after.panicked THEN after
             ELSE CollectPass(after, evs, i + 1)

item_collection_system ==
    /\ Turn("item_collection") /\ ~fault
    /\ LET run == CollectPass([carrier |-> carrier, posn |-> posn,
                               gone |-> despawned, log |-> msglog,
                               broken |-> FALSE, panicked |-> FALSE],
                              events, 1)
       IN  /\ msglog' = run.log
           /\ fault' = (run.panicked \/ run.broken)
           /\ IF run.panicked
              THEN UNCHANGED <<carrier, posn, despawned>>
              ELSE /\ carrier' = run.carrier
                   /\ posn' = run.posn
                   /\ despawned' = run.gone
    /\ pc' = After("item_collection")
    /\ UNCHANGED <<sched, p_posn_res, dirty, obstructive, opaque, door_open,
                   door_glyph, door_stuck, blocked_tiles, opaque_tiles, revealed_tiles,
                   visible_tiles, events, mv_trace, mv_unread, sent>>
    /\ UNCHANGED gear_vars
    /\ UNCHANGED bench_vars
    /\ UNCHANGED planq_vars

\* --------------------------------------------------------- planq_system
\* MessageLog::boot_message: the line of a boot stage, on the planq channel.
boot_message(log, stage) ==
    Append(log, Message("boot stage {}", "", <<stage>>, "planq"))

\* The width of the blank run before the idle indicator:
\* (4.4 * smooth_input - 23.0).abs() as usize
IdleWidth(secs) ==
    LET x == 44 * (secs % 10) - 230
    IN  (IF x < 0 THEN -x ELSE x) \div 10

\* format!("{:width$}", "", width=output) + "-=[ ]=-"
idle_message(secs) == Message("-=[ ]=-", "", <<IdleWidth(secs)>>, "planq")

\* MessageLog::replace: the message takes the place of the latest line of
\* its channel.
replace(log, msg) ==
    IF log = <<>> THEN <<msg>>
    ELSE [log EXCEPT ![Len(log)] = msg]

ClickFeedback ==
    Message("There is a faint 'click' as you press the PLANQ's power button.",
            "", <<>>, "")

\* The sources that are sampled from the moment the PLANQ is picked up.
CarriedSources == <<"planq_mode", "current_time", "planq_battery">>

\* DataSampleTimer::new().source(name)
NewSampler(name) == [source |-> name, timer |-> NewTimer(SampleTime)]

\* The loop body of a device system that is deaf to the GameEvents.
HearGame_Unheard(d, ev) == d

\* The loop body for one GameEvent; d holds the PlanqData, what the pass
\* has queued and written, and whether an unwrap has panicked.
HearGame(d, ev) ==
    IF ev.etype \notin {"ItemMove", "ItemDrop", "ItemUse"} THEN d
    ELSE IF ev.context = <<>> THEN [d EXCEPT !.panicked = TRUE]
    ELSE LET subject == ev.context[1]
             object == ev.context[2]
         IN  IF ev.etype = "ItemMove"
             THEN IF subject # Player THEN d
                  ELSE IF object # Planq THEN [d EXCEPT !.refresh = TRUE]
                  ELSE [d EXCEPT !.refresh = TRUE,
                                 !.planq.is_carried = TRUE,
                                 !.spawned = d.spawned \o
                                     [i \in 1 .. 3 |->
                                        NewSampler(CarriedSources[i])]]
             ELSE IF ev.etype = "ItemDrop"
             THEN [d EXCEPT !.refresh = d.refresh \/ subject = Player,
                            !.planq.is_carried =
                                IF object = Planq THEN FALSE
                                ELSE d.planq.is_carried]
             ELSE IF subject = Player /\ object = Planq
             THEN [d EXCEPT !.log = Append(d.log, ClickFeedback)]
             ELSE d

RECURSIVE HearGames(_, _, _)
HearGames(d, evs, i) ==
    IF i > Len(evs) \/ d.panicked THEN d
    ELSE HearGames(HearGame(d, evs[i]), evs, i + 1)

\* PlanqData::inventory_toggle
inventory_toggle(pq) == [pq EXCEPT !.show_inventory = ~pq.show_inventory]

\* The loop body for one PlanqEvent.
\* The loop body with a CLI that opens in every cpu mode.
HearPlanq_OpensAnyway(pq, ev) ==
    CASE ev.etype = "Startup" -> [pq EXCEPT !.cpu_mode = "Startup"]
      [] ev.etype = "BootStage" -> [pq EXCEPT !.boot_stage = ev.lvl]
      [] ev.etype = "Shutdown" -> [pq EXCEPT !.cpu_mode = "Shutdown"]
      [] ev.etype = "GoIdle" -> [pq EXCEPT !.cpu_mode = "Idle"]
      [] ev.etype = "CliOpen" ->
            [pq EXCEPT !.show_cli_input = TRUE, !.action_mode = "CliInput"]
      [] ev.etype = "CliClose" ->
            [pq EXCEPT !.show_cli_input = FALSE, !.action_mode = "Default"]
      [] ev.etype = "InventoryUse" ->
            [inventory_toggle(pq) EXCEPT !.action_mode = "UseItem"]
      [] ev.etype = "InventoryDrop" ->
            [inventory_toggle(pq) EXCEPT !.action_mode = "DropItem"]
      [] OTHER -> pq

HearPlanq(pq, ev) ==
    CASE ev.etype = "Startup" -> [pq EXCEPT !.cpu_mode = "Startup"]
      [] ev.etype = "BootStage" -> [pq EXCEPT !.boot_stage = ev.lvl]
      [] ev.etype = "Shutdown" -> [pq EXCEPT !.cpu_mode = "Shutdown"]
      [] ev.etype = "GoIdle" -> [pq EXCEPT !.cpu_mode = "Idle"]
      [] ev.etype = "CliOpen" ->
            IF pq.cpu_mode \notin {"Startup", "Shutdown", "Offline"}
            THEN [pq EXCEPT !.show_cli_input = TRUE,
                            !.action_mode = "CliInput"]
            ELSE pq
      [] ev.etype = "CliClose" ->
            [pq EXCEPT !.show_cli_input = FALSE, !.action_mode = "Default"]
      [] ev.etype = "InventoryUse" ->
            [inventory_toggle(pq) EXCEPT !.action_mode = "UseItem"]
      [] ev.etype = "InventoryDrop" ->
            [inventory_toggle(pq) EXCEPT !.action_mode = "DropItem"]
      [] OTHER -> pq

RECURSIVE HearPlanqs(_, _, _)
HearPlanqs(pq, evs, i) ==
    IF i > Len(evs) THEN pq
    ELSE HearPlanqs(HearPlanq(pq, evs[i]), evs, i + 1)

\* Mutation: the recorded power state is never brought up to date.
PowerSync_Deaf(pq, pw_switch) == pq

\* The recorded power state follows the switch of the device: switching on
\* starts the boot, switching off the shutdown.
PowerSync(pq, pw_switch) ==
    LET on == IF ~pq.power_is_on /\ pw_switch
              THEN [pq EXCEPT !.power_is_on = pw_switch,
                              !.show_terminal = TRUE,
                              !.cpu_mode = "Startup"]
              ELSE pq
    IN  IF on.power_is_on /\ ~pw_switch
        THEN [on EXCEPT !.power_is_on = pw_switch, !.cpu_mode = "Shutdown"]
        ELSE on

\* for id in planq.proc_table.clone() { ... }: the outcome of every process
\* whose timer has just finished is applied.
RECURSIVE Outcomes(_, _, _)
Outcomes(pq, ps, i) ==
    IF i > Len(pq.proc_table) THEN pq
    ELSE LET proc == ps[pq.proc_table[i]]
             next == IF ~proc.timer.just_finished THEN pq
                     ELSE IF proc.outcome.etype = "BootStage"
                     THEN [pq EXCEPT !.boot_stage = proc.outcome.lvl]
                     ELSE IF proc.outcome.etype = "GoIdle"
                     THEN [pq EXCEPT !.cpu_mode = "Idle"]
                     ELSE pq
         IN  Outcomes(next, ps, i + 1)

\* Boot stages 1 to 3: once the boot process has just finished the stage
\* is announced and the process is rearmed for the next stage.
RunStage(d) ==
    LET id == d.planq.proc_table[1]
    IN  IF d.planq.proc_table # <<>> /\ d.procs[id].timer.just_finished
        THEN [d EXCEPT !.plog = boot_message(d.plog, d.planq.boot_stage),
                       !.procs[id].timer = reset(d.procs[id].timer),
                       !.procs[id].outcome =
                           PlanqEvent("BootStage", d.planq.boot_stage + 1)]
        ELSE d

\* Mutation: the last boot stage leaves the PLANQ booting.
Booted_Never(mode) == mode

\* planq.cpu_mode = PlanqCPUMode::Idle at the end of boot stage 4
Booted(mode) == "Idle"

\* Boot stage 4: the status bar of the player's location is set up and the
\* PLANQ goes idle.
LastStage(d) ==
    LET id == d.planq.proc_table[1]
    IN  IF d.planq.proc_table # <<>> /\ d.procs[id].timer.just_finished
        THEN [d EXCEPT !.plog = boot_message(d.plog, d.planq.boot_stage),
                       !.monitor.status_bars =
                           Append(d.monitor.status_bars, "player_location"),
                       !.monitor.raw_data =
                           [k \in DOMAIN d.monitor.raw_data
                                   \cup {"player_location"} |->
                              IF k = "player_location" THEN <<"Text", <<>>>>
                              ELSE d.monitor.raw_data[k]],
                       !.spawned = Append(d.spawned,
                                          NewSampler("player_location")),
                       !.procs[id].outcome = PlanqEvent("NullEvent", 0),
                       !.planq.cpu_mode = Booted(d.planq.cpu_mode)]
        ELSE d

\* PlanqCPUMode::Startup
StartupArm(d) ==
    LET heard == [d EXCEPT !.planq = Outcomes(d.planq, d.procs, 1)]
        stage == heard.planq.boot_stage
    IN  IF stage = 0
        THEN IF heard.planq.proc_table = <<>>
             THEN [heard EXCEPT
                     !.plog = boot_message(heard.plog, 0),
                     !.planq.proc_table = <<Len(heard.procs) + 1>>,
                     !.born = <<[timer |-> NewTimer(BootTime),
                                 outcome |-> PlanqEvent("BootStage", 1)]>>]
             ELSE heard
        ELSE IF stage \in 1 .. 3 THEN RunStage(heard)
        ELSE IF stage = 4 THEN LastStage(heard)
        ELSE heard

\* match planq.cpu_mode { ... }
\* The Idle arm with the line added below the earlier ones instead.
IdleArm_Appends(d, secs) ==
    IF Len(d.planq.proc_table) = 1
    THEN [d EXCEPT !.plog = Append(d.plog, idle_message(secs))]
    ELSE d

\* PlanqCPUMode::Idle => { if planq.proc_table.len() == 1 { msglog.replace(..) } }
IdleArm(d, secs) ==
    IF Len(d.planq.proc_table) = 1
    THEN [d EXCEPT !.plog = replace(d.plog, idle_message(secs))]
    ELSE d

ModeArm(d, secs) ==
    CASE d.planq.cpu_mode = "Startup" -> StartupArm(d)
      [] d.planq.cpu_mode = "Idle" -> IdleArm(d, secs)
      [] d.planq.cpu_mode = "Working" ->
            IF Len(d.planq.proc_table) = 1
            THEN [d EXCEPT !.planq.cpu_mode = "Idle"]
            ELSE d
      [] OTHER -> d

\* The tick loop leaving every timer where it was.
TickProcs_Stalled(ps, delta) == ps

\* for mut pq_timer in t_query.iter_mut() { ... }
TickProcs(ps, delta) ==
    [i \in DOMAIN ps |->
        IF ~ps[i].timer.finished
        THEN [ps[i] EXCEPT !.timer = tick(ps[i].timer, delta)]
        ELSE ps[i]]

\* The order in which a query hands out the portable entities.
PortableOrder == [i \in 1 .. NumItems |-> Snack(i)] \o <<Planq>>

\* The items without a Position whose carrier is the player.
Backpack ==
    SelectSeq(PortableOrder,
              LAMBDA e : /\ e \notin despawned /\ posn[e] = NoPosition
                         /\ carrier[e] = Player)

\* The end of the pass: the timers of the processes that existed when the
\* pass began advance, what the pass spawned joins them, and the inventory
\* list is rebuilt if the player picked something up or dropped it.
ClosePass(d) ==
    LET ticked == [d EXCEPT !.procs = TickProcs(d.procs, time.delta) \o d.born]
    IN  IF d.refresh
        THEN [ticked EXCEPT !.planq.inventory_list = Backpack]
        ELSE ticked

\* The whole pass: the GameEvents, the PlanqEvents, the power switch, the
\* cpu mode and the end of the pass, each working on what the step before
\* it left.
PlanqPass ==
    LET d0 == [planq |-> planq, procs |-> procs, monitor |-> monitor,
               log |-> msglog, plog |-> planq_log, spawned |-> <<>>,
               born |-> <<>>, refresh |-> FALSE, panicked |-> FALSE]
        d1 == HearGames(d0, events, 1)
        d2 == [d1 EXCEPT !.planq = HearPlanqs(d1.planq, pevents, 1)]
        d3 == [d2 EXCEPT !.planq = PowerSync(d2.planq, device.pw_switch)]
    IN  IF d1.panicked THEN d1
        ELSE CHOOSE d5 \in {ClosePass(d4) :
                               d4 \in {ModeArm(synced, time.clock) :
                                         synced \in {d3}}} : TRUE

planq_system ==
    /\ Turn("planq") /\ ~fault
    /\ IF Planq \in despawned
       THEN /\ fault' = TRUE
            /\ UNCHANGED <<planq, procs, monitor, msglog, planq_log, samplers>>
       ELSE \E run \in {PlanqPass} :
                /\ fault' = run.panicked
                /\ msglog' = run.log
                /\ IF run.panicked
                   THEN UNCHANGED <<planq, procs, monitor, planq_log,
                                    samplers>>
                   ELSE /\ planq' = run.planq
                        /\ procs' = run.procs
                        /\ monitor' = run.monitor
                        /\ planq_log' = run.plog
                        /\ samplers' = samplers \o run.spawned
    /\ pevents' = <<>>
    /\ pc' = After("planq")
    /\ UNCHANGED <<sched, carrier, despawned, time, rng>>
    /\ UNCHANGED <<posn, p_posn_res, dirty, obstructive, opaque, door_open,
                   door_glyph, door_stuck, blocked_tiles, opaque_tiles, revealed_tiles,
                   visible_tiles, events, mv_trace, mv_unread, sent>>
    /\ UNCHANGED gear_vars
    /\ UNCHANGED bench_vars

\* ------------------------------------------------- planq_monitor_system
\* The most samples a Series is let to keep: if arr.len() >= 31.
SeriesCap == 31

\* The generator is seeded: its stream is fixed, and it comes round after
\* RngPeriod draws. The draw at place n of the stream, from 0 .. range - 1.
RngPeriod == 10
Draw(n, range) == n % range

\* Mutation: the series is trimmed at its back.
Trimmed_Back(arr) ==
    IF Len(arr) >= SeriesCap THEN SubSeq(arr, 1, SeriesCap - 1) ELSE arr

\* loop { if arr.len() >= 31 { arr.pop_front(); } else { break; } }
RECURSIVE Trimmed(_)
Trimmed(arr) ==
    IF Len(arr) >= SeriesCap THEN Trimmed(Tail(arr)) ELSE arr

\* PlanqDataType::Text(value.to_string()): the text that shows the value;
\* the empty text is Text(<<>>).
Text(value) == <<"Text", <<value>>>>

\* .entry(source_name).and_modify(|x| *x = value)
and_modify(raw, key, value) ==
    IF key \in DOMAIN raw THEN [raw EXCEPT ![key] = value] ELSE raw

\* The update of the source of a timer that has finished; o holds the
\* monitor's data, the generator and whether an unwrap has panicked. The
\* closure of and_modify, and with it the draw, runs only for a source that
\* has an entry. Of the time of day a status bar shows, the last digit of
\* its seconds is kept.
Resample(o, source) ==
    CASE source = "planq_mode" ->
            [o EXCEPT !.raw = and_modify(o.raw, source,
                                         Text(planq.cpu_mode))]
      [] source = "player_location" ->
            [o EXCEPT !.raw = and_modify(o.raw, source,
                                         Text(posn[Player]))]
      [] source = "current_time" ->
            [o EXCEPT !.raw = and_modify(o.raw, source,
                                         Text(time.clock))]
      [] source = "planq_battery" ->
            [o EXCEPT !.raw = and_modify(o.raw, source,
                                         <<"Percent", device.batt_voltage>>)]
      [] source = "test_line" ->
            IF source \notin DOMAIN o.raw THEN o
            ELSE [o EXCEPT !.raw[source] = <<"Decimal", Draw(o.rng, 100), 100>>,
                           !.rng = (o.rng + 1) % RngPeriod]
      [] source = "test_sparkline" ->
            IF source \notin DOMAIN o.raw THEN [o EXCEPT !.panicked = TRUE]
            ELSE IF o.raw[source][1] # "Series" THEN o
            ELSE [o EXCEPT !.raw[source] =
                               <<"Series",
                                 Trimmed(Append(o.raw[source][2],
                                                Draw(o.rng, 10)))>>,
                           !.rng = (o.rng + 1) % RngPeriod]
      [] source = "test_gauge" ->
            IF source \notin DOMAIN o.raw THEN o
            ELSE [o EXCEPT !.raw[source] = <<"Percent", Draw(o.rng, 101)>>,
                           !.rng = (o.rng + 1) % RngPeriod]
      [] OTHER -> o

\* Mutation: every source is sampled in every pass.
Due_Always(t) == TRUE

\* if data_timer.1.timer.finished()
Due(t) == t.finished

\* for mut data_timer in s_query.iter_mut() { ... }: a timer that has
\* finished has its source updated and is reset; any other is ticked.
RECURSIVE MonitorPass(_, _)
MonitorPass(o, i) ==
    IF i > Len(o.samplers) \/ o.panicked THEN o
    ELSE IF Due(o.samplers[i].timer)
    THEN LET done == Resample(o, o.samplers[i].source)
         IN  MonitorPass([done EXCEPT !.samplers[i].timer =
                                         reset(o.samplers[i].timer)],
                         i + 1)
    ELSE MonitorPass([o EXCEPT !.samplers[i].timer =
                                  tick(o.samplers[i].timer, time.delta)],
                     i + 1)

planq_monitor_system ==
    /\ Turn("planq_monitor") /\ ~fault
    /\ IF Planq \in despawned
       THEN /\ fault' = TRUE
            /\ UNCHANGED <<planq, monitor, samplers, rng>>
       ELSE \E run \in {MonitorPass([raw |-> monitor.raw_data,
                                      samplers |-> samplers, rng |-> rng,
                                      panicked |-> FALSE], 1)} :
                /\ fault' = run.panicked
                /\ planq' = [planq EXCEPT !.stdout = planq_log,
                                          !.player_loc = posn[Player]]
                /\ IF run.panicked
                   THEN UNCHANGED <<monitor, samplers, rng>>
                   ELSE /\ monitor' = [monitor EXCEPT !.raw_data = run.raw]
                        /\ samplers' = run.samplers
                        /\ rng' = run.rng
    /\ pc' = After("planq_monitor")
    /\ UNCHANGED <<sched, carrier, despawned, planq_log, procs, pevents,
                   time>>
    /\ UNCHANGED <<posn, p_posn_res, dirty, obstructive, opaque, door_open,
                   door_glyph, door_stuck, blocked_tiles, opaque_tiles, revealed_tiles,
                   visible_tiles, events, msglog, mv_trace, mv_unread, sent>>
    /\ UNCHANGED gear_vars
    /\ UNCHANGED bench_vars

\* ------------------------------------------------------------ the frame
\* The longest frame, in seconds.
MaxDelta == 2

\* The engine's clock: every frame lasts some time, possibly none that the
\* clock can tell; of the seconds since the start only the last digit is
\* ever read (time.elapsed().as_secs() % 10).
time_system ==
    /\ Turn("time") /\ ~fault
    /\ \E delta \in 0 .. MaxDelta :
         time' = [delta |-> delta, clock |-> (time.clock + delta) % 10]
    /\ pc' = After("time")
    /\ UNCHANGED <<sched, carrier, despawned, planq, planq_log, procs,
                   samplers, monitor, pevents, rng>>
    /\ UNCHANGED <<posn, p_posn_res, dirty, obstructive, opaque, door_open,
                   door_glyph, door_stuck, blocked_tiles, opaque_tiles, revealed_tiles,
                   visible_tiles, events, msglog, mv_trace, mv_unread, sent,
                   fault>>
    /\ UNCHANGED gear_vars
    /\ UNCHANGED bench_vars

\* The input layer sends a GameEvent in a game that lasts one event longer.
send_more(ev) ==
    /\ pc = "input" /\ ~fault
    /\ Len(events) < MaxQueue /\ sent < MaxEvents + 1
    /\ events' = Append(events, ev)
    /\ sent' = sent + 1
    /\ UNCHANGED kit_vars
    /\ UNCHANGED gear_vars
    /\ UNCHANGED <<posn, p_posn_res, dirty, obstructive, opaque, door_open,
                   door_glyph, blocked_tiles, opaque_tiles, revealed_tiles,
                   visible_tiles, msglog, mv_trace, mv_unread, pc, fault>>

\* The input layer sends a PlanqEvent.
send_planq_event(ev) ==
    /\ pc = "input" /\ ~fault
    /\ Len(pevents) < MaxQueue /\ sent < MaxEvents
    /\ pevents' = Append(pevents, ev)
    /\ sent' = sent + 1
    /\ UNCHANGED <<sched, carrier, despawned, planq, planq_log, procs,
                   samplers, monitor, time, rng>>
    /\ UNCHANGED <<posn, p_posn_res, dirty, obstructive, opaque, door_open,
                   door_glyph, door_stuck, blocked_tiles, opaque_tiles, revealed_tiles,
                   visible_tiles, events, msglog, mv_trace, mv_unread, pc,
                   fault>>
    /\ UNCHANGED gear_vars
    /\ UNCHANGED bench_vars

\* Device::power_off, called on the PLANQ between two ticks.
power_off ==
    /\ pc = "input" /\ ~fault
    /\ device.pw_switch
    /\ device' = [device EXCEPT !.pw_switch = FALSE, !.state = "Offline"]
    /\ UNCHANGED <<lockable, keys, lock_obj, lock_calls>>
    /\ UNCHANGED kit_vars
    /\ UNCHANGED <<posn, p_posn_res, dirty, obstructive, opaque, door_open,
                   door_glyph, blocked_tiles, opaque_tiles, revealed_tiles,
                   visible_tiles, events, msglog, mv_trace, mv_unread, pc,
                   sent, fault>>

\* -------------------------------------------------------- engine_system
\* The modes of the engine that the systems name, and Standby for the
\* modes they do not name.
EngineModes == {"Running", "Paused", "GoodEnd", "Standby"}

\* GameEvent::new(ModeSwitch(mode), ..): the mode is the payload.
ModeSwitch(mode) == [etype |-> "ModeSwitch", dir |-> mode, context |-> <<>>]

PauseToggle == [etype |-> "PauseToggle", dir |-> "X", context |-> <<>>]

\* A toggle that pauses whatever mode it finds.
EngineOne_AlwaysPauses(mode, ev) ==
    CASE ev.etype = "ModeSwitch" -> ev.dir
      [] ev.etype = "PauseToggle" ->
            IF mode = "Paused" THEN "Running" ELSE "Paused"
      [] OTHER -> mode

\* match event.etype { ModeSwitch(mode) => .., PauseToggle => .., _ => {} }
EngineOne(mode, ev) ==
    CASE ev.etype = "ModeSwitch" -> ev.dir
      [] ev.etype = "PauseToggle" ->
            IF mode = "Running" THEN "Paused"
            ELSE IF mode = "Paused" THEN "Running"
            ELSE mode
      [] OTHER -> mode

\* for event in ereader.iter(): the mode after each event, in turn.
RECURSIVE EnginePass(_, _, _, _)
EnginePass(mode, evs, i, trace) ==
    IF i > Len(evs) THEN trace
    ELSE LET next == EngineOne(mode, evs[i])
         IN  EnginePass(next, evs, i + 1, Append(trace, next))

\* Position::new(28, 1, 1)
Elevator == Position(28, 1, 1)

\* The entities of p_items_query that the player carries.
p_inventory ==
    {e \in Portables \ despawned :
        posn[e] = NoPosition /\ carrier[e] = Player}

\* The victory of a player who never reaches the elevator.
Victory_Never == FALSE

\* *player.1 == Position::new(28, 1, 1) && p_inventory.contains(&planq.0)
Victory == posn[Player] = Elevator /\ Planq \in p_inventory

\* One pass of the engine system; q_query.get_single().unwrap() panics
\* when the PLANQ is no more.
engine_system ==
    /\ Turn("engine") /\ ~fault
    /\ \E trace \in {EnginePass(state.mode, events, 1, <<>>)} :
          /\ mode_trace' = trace
          /\ fault' = (Planq \in despawned)
          /\ state' = IF Planq \notin despawned /\ Victory
                      THEN [mode |-> "GoodEnd", mode_changed |-> TRUE]
                      ELSE IF trace = <<>> THEN state
                      ELSE [state EXCEPT !.mode = trace[Len(trace)]]
    /\ pc' = After("engine")
    /\ UNCHANGED probe
    /\ UNCHANGED <<sched, carrier, despawned>>
    /\ UNCHANGED planq_vars
    /\ UNCHANGED gear_vars
    /\ UNCHANGED <<posn, p_posn_res, dirty, obstructive, opaque, door_open,
                   door_glyph, door_stuck, blocked_tiles, opaque_tiles, revealed_tiles,
                   visible_tiles, events, msglog, mv_trace, mv_unread, sent>>

\* ------------------------------------------------- methods of Position
MaxRange == 3

\* The positions of the map.
Grid == {Position(x, y, z) : x \in 0 .. (Width - 1), y \in 0 .. (Height - 1),
                             z \in Floors}

\* The root cut off below the point.
RoundedRoot_Truncated(n) == CHOOSE k \in 0 .. n : k * k <= n /\ n < (k + 1) * (k + 1)

\* f32::sqrt(n).round(): the whole number nearest to the root of n (the
\* root of a whole number never lies half-way between two of them).
RoundedRoot(n) ==
    CHOOSE k \in 0 .. n :
        /\ 4 * n < (2 * k + 1) * (2 * k + 1)
        /\ k = 0 \/ (2 * k - 1) * (2 * k - 1) <= 4 * n

\* Position::in_range_of
in_range_of(self, target, range) ==
    IF self.z # target.z THEN FALSE
    ELSE IF range = 0 THEN self = target
    ELSE LET d_x == (target.y - self.y) * (target.y - self.y)
             d_y == (target.x - self.x) * (target.x - self.x)
             distance == RoundedRoot(d_x + d_y)
         IN  distance <= range

\* Position::is_adjacent_to
is_adjacent_to(self, target) == in_range_of(self, target, 1)

\* A call that is about to be made: what is called, and on what.
Call(name, self, target, dir, range) ==
    [call |-> name, self |-> self, target |-> target, dir |-> dir,
     range |-> range, done |-> FALSE, result |-> FALSE]

\* The movement system works out where a step from probe.self would lead.
call_target ==
    /\ probe # <<>> /\ ~probe.done /\ probe.call = "target"
    /\ probe' = [probe EXCEPT !.done = TRUE,
                               !.target = DesiredTarget(probe.self, probe.dir)]
    /\ UNCHANGED <<state, mode_trace>>
    /\ UNCHANGED <<sched, carrier, despawned>>
    /\ UNCHANGED planq_vars
    /\ UNCHANGED gear_vars
    /\ UNCHANGED <<posn, p_posn_res, dirty, obstructive, opaque, door_open,
                   door_glyph, door_stuck, blocked_tiles, opaque_tiles, revealed_tiles,
                   visible_tiles, events, msglog, mv_trace, mv_unread, pc,
                   sent, fault>>

\* self.in_range_of(&target, range) is called.
call_in_range_of ==
    /\ probe # <<>> /\ ~probe.done /\ probe.call = "in_range_of"
    /\ probe' = [probe EXCEPT !.done = TRUE,
                               !.result = in_range_of(probe.self, probe.target,
                                                      probe.range)]
    /\ UNCHANGED <<state, mode_trace>>
    /\ UNCHANGED <<sched, carrier, despawned>>
    /\ UNCHANGED planq_vars
    /\ UNCHANGED gear_vars
    /\ UNCHANGED <<posn, p_posn_res, dirty, obstructive, opaque, door_open,
                   door_glyph, door_stuck, blocked_tiles, opaque_tiles, revealed_tiles,
                   visible_tiles, events, msglog, mv_trace, mv_unread, pc,
                   sent, fault>>

\* self.is_adjacent_to(&target) is called.
call_is_adjacent_to ==
    /\ probe # <<>> /\ ~probe.done /\ probe.call = "is_adjacent_to"
    /\ probe' = [probe EXCEPT !.done = TRUE,
                               !.result = is_adjacent_to(probe.self,
                                                         probe.target)]
    /\ UNCHANGED <<state, mode_trace>>
    /\ UNCHANGED <<sched, carrier, despawned>>
    /\ UNCHANGED planq_vars
    /\ UNCHANGED gear_vars
    /\ UNCHANGED <<posn, p_posn_res, dirty, obstructive, opaque, door_open,
                   door_glyph, door_stuck, blocked_tiles, opaque_tiles, revealed_tiles,
                   visible_tiles, events, msglog, mv_trace, mv_unread, pc,
                   sent, fault>>

\* The input layer sends a PlanqEvent in a game that lasts one event longer.
send_planq_more(ev) ==
    /\ pc = "input" /\ ~fault
    /\ Len(pevents) < MaxQueue /\ sent < MaxEvents + 1
    /\ pevents' = Append(pevents, ev)
    /\ sent' = sent + 1
    /\ UNCHANGED <<sched, carrier, despawned, planq, planq_log, procs,
                   samplers, monitor, time, rng>>
    /\ UNCHANGED <<posn, p_posn_res, dirty, obstructive, opaque, door_open,
                   door_glyph, door_stuck, blocked_tiles, opaque_tiles, revealed_tiles,
                   visible_tiles, events, msglog, mv_trace, mv_unread, pc,
                   fault>>
    /\ UNCHANGED gear_vars
    /\ UNCHANGED bench_vars

\* ------------------------------------------------------------ the world
\* The items, the PLANQ and its monitor as the game spawns them.
KitAtSpawn ==
    /\ carrier = [e \in Portables |-> Placeholder]
    /\ despawned = {}
    /\ PlanqAtRest
    /\ EngineAtRest
    /\ DoorsAtRest

DoorPost == Position(2, 1, 0)
PileTile == Position(2, 1, 1)
LMRPosts == {Position(1, 1, 1), Position(2, 2, 1), Position(2, 2, 0)}

PileSizes == {1, 3, NumItems}

\* Where the player may be spawned: open terrain that nothing occupies.
SpawnPoints(lmr_at) ==
    {p \in {Position(1, 1, 0), Position(2, 2, 0), Position(2, 2, 1)} :
        /\ ~TerrainBlocks(TileTypeAt(p.x, p.y, p.z))
        /\ p \notin {lmr_at, DoorPost}}

Init ==
    /\ \E lmr_at \in LMRPosts, piled \in PileSizes :
         \E spawn \in SpawnPoints(lmr_at) :
            /\ posn = [e \in Entities |->
                        IF e = Player THEN spawn
                        ELSE IF e = LMR THEN lmr_at
                        ELSE IF e = Door THEN DoorPost
                        ELSE IF e \in Items /\ e[2] <= piled THEN PileTile
                        ELSE NoPosition]
            /\ p_posn_res = spawn
    /\ dirty = [e \in {Player, LMR} |-> TRUE]
    /\ obstructive = {Player, LMR, Door}
    /\ opaque = [e \in {Player, LMR, Door} |-> TRUE]
    /\ door_open = [d \in Doors |-> FALSE]
    /\ door_glyph = [d \in Doors |-> "closed_glyph"]
    /\ blocked_tiles = [f \in Floors |-> TerrainBlocked(f)]
    /\ opaque_tiles = [f \in Floors |-> TerrainOpaqueMap(f)]
    /\ revealed_tiles = [f \in Floors |-> [i \in TileIndexes |-> FALSE]]
    /\ visible_tiles = [e \in {Player, LMR} |-> {}]
    /\ events = <<>>
    /\ msglog = <<>>
    /\ mv_trace = <<>>
    /\ mv_unread = <<>>
    /\ pc = "input"
    /\ sent = 0
    /\ fault = FALSE
    /\ lockable = [d \in Doors |-> [is_locked |-> FALSE, key |-> 0]]
    /\ keys = [k \in Keys |-> [key_id |-> 0, carrier |-> Placeholder]]
    /\ device = [pw_switch |-> FALSE, batt_voltage |-> 100,
                 batt_discharge |-> -1, state |-> "Offline"]
    /\ lock_obj = [is_locked |-> FALSE, key |-> 0]
    /\ lock_calls = <<>>
    /\ sched = <<"map_indexing", "movement", "openable", "visibility",
                 "update">>
    /\ KitAtSpawn

Next ==
    \/ \E ev \in GameEvents : send_event(ev)
    \/ map_indexing_system
    \/ movement_system
    \/ openable_system
    \/ visibility_system
    \/ event_update_system

Spec == Init /\ [][Next]_vars

TypeOK ==
    /\ pc \in {"input", "movement", "operable", "openable", "visibility",
              "update"}
    /\ posn[Player] # NoPosition
    /\ Len(events) <= MaxQueue


\* ----------------------------------------------- the interaction systems
\* The acts the input layer can ask for on the doors: by either actor, on
\* either door or on something that is no door, or with no context at all.
OpenEvents ==
    {[etype |-> t, dir |-> "X", context |-> c] :
        t \in {"ActorOpen", "ActorClose"},
        c \in {<<a, o>> : a \in CanOpen, o \in Doors \cup {Snack(1)}}
              \cup {<<>>}}

\* Uses of the PLANQ, with a full context or one that names nobody.
UseEvents ==
    {[etype |-> "ItemUse", dir |-> "X", context |-> c] :
        c \in {<<Player, Planq>>, <<Placeholder, Planq>>,
               <<Player, Placeholder>>}}

\* Interaction events that carry no context.
BareEvents ==
    {[etype |-> t, dir |-> "X", context |-> <<>>] :
        t \in {"ItemUse", "ItemMove", "ItemDrop", "ActorLock", "ActorUnlock"}}

LockEvents ==
    {[etype |-> t, dir |-> "X", context |-> c] :
        t \in {"ActorLock", "ActorUnlock"},
        c \in {<<a, Door>> : a \in CanOpen} \cup {<<>>}}

\* The systems that act on doors, locks and the power button, in tick order.
DoorSchedule == <<"lock", "operable", "openable", "visibility", "update">>

\* A deck with both actors, a closed door next to them, an open door one
\* floor up and a snack on the floor.
Station ==
    /\ posn = [e \in Entities |->
                 IF e = Player THEN Position(1, 1, 0)
                 ELSE IF e = LMR THEN Position(2, 2, 0)
                 ELSE IF e = Door THEN DoorPost
                 ELSE IF e = Door2 THEN PileTile
                 ELSE IF e = Snack(1) THEN Position(1, 2, 0)
                 ELSE NoPosition]
    /\ p_posn_res = Position(1, 1, 0)
    /\ dirty = [e \in {Player, LMR} |-> TRUE]
    /\ obstructive = {Player, LMR, Door}
    /\ opaque = [e \in {Player, LMR} \cup Doors |-> e # Door2]
    /\ door_open = [d \in Doors |-> d = Door2]
    /\ door_glyph = [d \in Doors |->
                       IF d = Door2 THEN "open_glyph" ELSE "closed_glyph"]
    /\ blocked_tiles = [f \in Floors |-> TerrainBlocked(f)]
    /\ opaque_tiles = [f \in Floors |-> TerrainOpaqueMap(f)]
    /\ revealed_tiles = [f \in Floors |-> [i \in TileIndexes |-> FALSE]]
    /\ visible_tiles = [e \in {Player, LMR} |-> {}]
    /\ events = <<>>
    /\ msglog = <<>>
    /\ mv_trace = <<>>
    /\ mv_unread = <<>>
    /\ pc = "input"
    /\ sent = 0
    /\ fault = FALSE
    /\ device = [pw_switch |-> FALSE, batt_voltage |-> 100,
                 batt_discharge |-> -1, state |-> "Offline"]

InitActs ==
    /\ Station
    /\ lockable = [d \in Doors |-> [is_locked |-> FALSE, key |-> 0]]
    /\ keys = [k \in Keys |-> [key_id |-> 0, carrier |-> Placeholder]]
    /\ lock_obj = [is_locked |-> FALSE, key |-> 0]
    /\ lock_calls = <<>>
    /\ sched = DoorSchedule
    /\ KitAtSpawn

NextActs ==
    \/ \E ev \in OpenEvents \cup UseEvents \cup BareEvents : send_event(ev)
    \/ lock_system
    \/ operable_system
    \/ openable_system
    \/ visibility_system
    \/ event_update_system

SpecActs == InitActs /\ [][NextActs]_vars

\* The locks: every key has some id and is carried by the player, by the
\* LMR or by nobody, and the doors start locked or unlocked.
InitLocks ==
    /\ Station
    /\ \E locked \in BOOLEAN :
         lockable = [d \in Doors |-> [is_locked |-> locked, key |-> 1]]
    /\ keys \in [Keys -> [key_id : 1 .. MaxKeyId,
                          carrier : {Player, LMR, Placeholder}]]
    /\ lock_obj = [is_locked |-> FALSE, key |-> 0]
    /\ lock_calls = <<>>
    /\ sched = DoorSchedule
    /\ KitAtSpawn

NextLocks ==
    \/ \E ev \in LockEvents : send_event(ev)
    \/ lock_system
    \/ operable_system
    \/ openable_system
    \/ visibility_system
    \/ event_update_system

SpecLocks == InitLocks /\ [][NextLocks]_vars

\* Direct calls of the methods of a Lockable, from any Lockable.
InitLockable ==
    /\ Station
    /\ lockable = [d \in Doors |-> [is_locked |-> FALSE, key |-> 0]]
    /\ keys = [k \in Keys |-> [key_id |-> 0, carrier |-> Placeholder]]
    /\ lock_obj \in [is_locked : BOOLEAN, key : KeyIds]
    /\ lock_calls = <<>>
    /\ sched = DoorSchedule
    /\ KitAtSpawn

NextLockable ==
    \/ \E k \in KeyIds : call_unlock(k)
    \/ \E n \in KeyIds : call_lock(n)

SpecLockable == InitLockable /\ [][NextLockable]_vars

\* ------------------------------------------------------ the item systems
\* Picking up, dropping and destroying: by the player or by the LMR, of a
\* snack, of the PLANQ or of a door, with a context that names nobody or
\* with no context at all.
ItemEvents ==
    {[etype |-> t, dir |-> "X", context |-> c] :
        t \in {"ItemMove", "ItemDrop", "ItemKILL"},
        c \in {<<Player, Snack(1)>>, <<Player, Snack(2)>>, <<Player, Planq>>,
               <<LMR, Snack(1)>>, <<Player, Door>>, <<Player, Placeholder>>,
               <<>>}}

\* Where the PLANQ lies when the game starts.
PlanqPost == Position(2, 2, 1)

\* Where the player may stand when the items are handled.
Berths == {Position(1, 1, 0), Position(1, 2, 0), PlanqPost}

\* A deck with both actors, a closed door, a snack and the PLANQ on the
\* floor and a second snack in the player's pack; the other snacks have
\* not been spawned.
Deck(berth) ==
    /\ posn = [e \in Entities |->
                 IF e = Player THEN berth
                 ELSE IF e = LMR THEN Position(2, 2, 0)
                 ELSE IF e = Door THEN DoorPost
                 ELSE IF e = Snack(1) THEN Position(1, 2, 0)
                 ELSE IF e = Planq THEN PlanqPost
                 ELSE NoPosition]
    /\ p_posn_res = berth
    /\ dirty = [e \in {Player, LMR} |-> TRUE]
    /\ obstructive = {Player, LMR, Door}
    /\ opaque = [e \in {Player, LMR} \cup Doors |-> e # Door2]
    /\ door_open = [d \in Doors |-> d = Door2]
    /\ door_glyph = [d \in Doors |->
                       IF d = Door2 THEN "open_glyph" ELSE "closed_glyph"]
    /\ blocked_tiles = [f \in Floors |-> TerrainBlocked(f)]
    /\ opaque_tiles = [f \in Floors |-> TerrainOpaqueMap(f)]
    /\ revealed_tiles = [f \in Floors |-> [i \in TileIndexes |-> FALSE]]
    /\ visible_tiles = [e \in {Player, LMR} |-> {}]
    /\ events = <<>>
    /\ msglog = <<>>
    /\ mv_trace = <<>>
    /\ mv_unread = <<>>
    /\ pc = "input"
    /\ sent = 0
    /\ fault = FALSE
    /\ device = [pw_switch |-> FALSE, batt_voltage |-> 100,
                 batt_discharge |-> -1, state |-> "Offline"]
    /\ lockable = [d \in Doors |-> [is_locked |-> FALSE, key |-> 0]]
    /\ keys = [k \in Keys |-> [key_id |-> 0, carrier |-> Placeholder]]
    /\ lock_obj = [is_locked |-> FALSE, key |-> 0]
    /\ lock_calls = <<>>
    /\ carrier = [e \in Portables |->
                    IF e = Snack(2) THEN Player ELSE Placeholder]
    /\ despawned = {Door2} \cup (Items \ {Snack(1), Snack(2)})

\* That deck, with the PLANQ switched off.
Hold(berth) == Deck(berth) /\ PlanqAtRest /\ EngineAtRest /\ DoorsAtRest

ItemSchedule == <<"item_collection", "update">>

InitItems ==
    /\ \E berth \in Berths : Hold(berth)
    /\ sched = ItemSchedule

NextItems ==
    \/ \E ev \in ItemEvents : send_event(ev)
    \/ item_collection_system
    \/ event_update_system

SpecItems == InitItems /\ [][NextItems]_vars

\* ---------------------------------------------------- the PLANQ's software
\* The PlanqEvents that steer the boot; stage 5 stands for the stages the
\* boot does not know.
PlanqEvents ==
    {PlanqEvent("Startup", 0), PlanqEvent("Shutdown", 0),
     PlanqEvent("GoIdle", 0), PlanqEvent("BootStage", 5)}

\* The press of the PLANQ's power button.
PowerButton ==
    [etype |-> "ItemUse", dir |-> "X", context |-> <<Player, Planq>>]

PlanqSchedule == <<"time", "operable", "planq", "update">>

InitPlanq ==
    /\ Hold(Position(1, 1, 0))
    /\ sched = PlanqSchedule

NextPlanq ==
    \/ send_event(PowerButton)
    \/ \E ev \in PlanqEvents : send_planq_event(ev)
    \/ power_off
    \/ time_system
    \/ operable_system
    \/ planq_system
    \/ event_update_system

SpecPlanq == InitPlanq /\ [][NextPlanq]_vars

\* The boot left to itself: the power button is all the input there is.
NextBoot ==
    \/ send_event(PowerButton)
    \/ time_system
    \/ operable_system
    \/ planq_system
    \/ event_update_system

SpecBoot == InitPlanq /\ [][NextBoot]_vars

\* A frame that takes time.
PositiveFrame == time_system /\ time'.delta > 0

\* The schedule runs every system in every tick, and time does not stand
\* still for ever: frames of positive duration keep coming.
SpecBootFair ==
    /\ SpecBoot
    /\ WF_vars(operable_system)
    /\ WF_vars(planq_system)
    /\ WF_vars(event_update_system)
    /\ SF_vars(PositiveFrame)

\* ------------------------------------------------------ the status bars
\* NewTimer(duration), or that timer run out.
Phases(duration) == {NewTimer(duration), tick(NewTimer(duration), duration)}

\* The monitor with the bars of the cpu mode and of the time of day and
\* with the test bars of the sparkline (a sample every second) and of the
\* gauge (every three seconds, but without an entry for its data). The
\* timers were spawned at different times: each is somewhere in its run.
MonitorUnderTest ==
    /\ planq = [power_is_on |-> FALSE, show_terminal |-> FALSE,
                cpu_mode |-> "Offline", boot_stage |-> 0,
                proc_table |-> <<>>, is_carried |-> TRUE,
                show_cli_input |-> FALSE, show_inventory |-> FALSE,
                action_mode |-> "Default", inventory_list |-> <<>>,
                stdout |-> <<>>, player_loc |-> NoPosition]
    /\ planq_log = <<>>
    /\ procs = <<>>
    /\ monitor = [status_bars |-> <<"planq_mode", "current_time",
                                    "test_sparkline", "test_gauge">>,
                  raw_data |-> [k \in {"planq_mode", "current_time",
                                       "test_sparkline"} |->
                                  IF k = "test_sparkline"
                                  THEN <<"Series", <<>>>>
                                  ELSE <<"Text", <<>>>>]]
    /\ \E t1 \in Phases(SampleTime), t2 \in Phases(1) :
         samplers = <<[source |-> "planq_mode", timer |-> NewTimer(SampleTime)],
                      [source |-> "current_time", timer |-> t1],
                      [source |-> "test_sparkline", timer |-> t2],
                      [source |-> "test_gauge", timer |-> NewTimer(3)]>>
    /\ pevents = <<>>
    /\ time = [delta |-> 0, clock |-> 0]
    /\ rng = 0
    /\ EngineAtRest
    /\ DoorsAtRest

MonitorSchedule == <<"time", "planq_monitor", "update">>

InitMonitor ==
    /\ Deck(Position(1, 1, 0))
    /\ MonitorUnderTest
    /\ sched = MonitorSchedule

NextMonitor ==
    \/ time_system
    \/ planq_monitor_system
    \/ event_update_system

SpecMonitor == InitMonitor /\ [][NextMonitor]_vars

\* ------------------------------------------------------------ the doors
\* Opening, closing and locking either door, by the player or by the LMR.
HatchEvents ==
    {[etype |-> t, dir |-> "X", context |-> <<a, d>>] :
        t \in {"ActorOpen", "ActorClose", "ActorLock"},
        a \in CanOpen, d \in Doors}

\* The doors start locked or not and stuck or not.
InitDoors ==
    /\ Station
    /\ lockable \in [Doors -> [is_locked : BOOLEAN, key : {1}]]
    /\ keys = [k \in Keys |-> [key_id |-> 0, carrier |-> Placeholder]]
    /\ lock_obj = [is_locked |-> FALSE, key |-> 0]
    /\ lock_calls = <<>>
    /\ sched = DoorSchedule
    /\ carrier = [e \in Portables |-> Placeholder]
    /\ despawned = {}
    /\ PlanqAtRest
    /\ EngineAtRest
    /\ door_stuck \in [Doors -> BOOLEAN]

NextDoors ==
    \/ \E ev \in HatchEvents : send_event(ev)
    \/ lock_system
    \/ operable_system
    \/ openable_system
    \/ visibility_system
    \/ event_update_system

SpecDoors == InitDoors /\ [][NextDoors]_vars

\* ------------------------------------- the interaction systems together
\* The player takes, drops or destroys the PLANQ or the snack on the floor,
\* the LMR does the same to the snack, and the player presses the power
\* button, opens the door or locks it.
CarryEvents ==
    {[etype |-> t, dir |-> "X", context |-> c] :
        t \in {"ItemMove", "ItemDrop", "ItemKILL"},
        c \in {<<Player, Planq>>, <<Player, Snack(1)>>, <<LMR, Snack(1)>>}}
    \cup {PowerButton}
    \cup {[etype |-> t, dir |-> "X", context |-> <<Player, Door>>] :
            t \in {"ActorOpen", "ActorLock"}}

CarrySchedule ==
    <<"lock", "operable", "openable", "item_collection", "planq", "update">>

InitCarry ==
    /\ Deck(Position(1, 1, 0))
    /\ PlanqListing(Backpack)
    /\ EngineAtRest
    /\ DoorsAtRest
    /\ sched = CarrySchedule

NextCarry ==
    \/ \E ev \in CarryEvents : send_more(ev)
    \/ lock_system
    \/ operable_system
    \/ openable_system
    \/ item_collection_system
    \/ planq_system
    \/ event_update_system

SpecCarry == InitCarry /\ [][NextCarry]_vars

\* -------------------------------------------------------------- the CLI
\* The commands that open and close the CLI, and those that set the cpu
\* mode.
CliEvents ==
    {PlanqEvent(t, 0) :
        t \in {"CliOpen", "CliClose", "Startup", "Shutdown", "GoIdle"}}

CliSchedule == <<"planq", "update">>

InitCli ==
    /\ Hold(Position(1, 1, 0))
    /\ sched = CliSchedule

NextCli ==
    \/ \E ev \in CliEvents : send_planq_more(ev)
    \/ planq_system
    \/ event_update_system

SpecCli == InitCli /\ [][NextCli]_vars

\* ----------------------------------------------------------- the engine
\* What the engine may hear: switches to every mode, the pause key, and the
\* player taking, dropping or destroying the PLANQ.
EngineEvents ==
    {ModeSwitch(m) : m \in EngineModes} \cup {PauseToggle}
    \cup {[etype |-> t, dir |-> "X", context |-> <<Player, Planq>>] :
            t \in {"ItemMove", "ItemDrop", "ItemKILL"}}

EngineSchedule == <<"engine", "item_collection", "update">>

\* The player stands in the elevator or elsewhere; the PLANQ lies on the
\* floor.
InitEngine ==
    /\ \E berth \in {Elevator, PlanqPost} : Deck(berth)
    /\ PlanqAtRest
    /\ state \in {[mode |-> m, mode_changed |-> FALSE] : m \in EngineModes}
    /\ mode_trace = <<>>
    /\ probe = <<>>
    /\ DoorsAtRest
    /\ sched = EngineSchedule

NextEngine ==
    \/ \E ev \in EngineEvents : send_event(ev)
    \/ engine_system
    \/ item_collection_system
    \/ event_update_system

SpecEngine == InitEngine /\ [][NextEngine]_vars

\* ------------------------------------------------ positions and ranges
\* Steps and range tests between any two positions of the map.
Calls ==
    {Call("target", p, p, dir, 0) : p \in Grid, dir \in Directions}
    \cup {Call("in_range_of", p, q, "X", r) :
             p \in Grid, q \in Grid, r \in 0 .. MaxRange}
    \cup {Call("is_adjacent_to", p, q, "X", 1) : p \in Grid, q \in Grid}

InitPosition ==
    /\ Deck(Position(1, 1, 0))
    /\ PlanqAtRest
    /\ state = Settings
    /\ mode_trace = <<>>
    /\ probe \in Calls
    /\ DoorsAtRest
    /\ sched = <<"update">>

NextPosition ==
    \/ call_target
    \/ call_in_range_of
    \/ call_is_adjacent_to

SpecPosition == InitPosition /\ [][NextPosition]_vars


\* =============================================================== claims
\* The events the last movement pass handled.
Handled == {mv_trace[i] : i \in DOMAIN mv_trace}

\* The event left the player's Position, Viewshed.dirty and the Position
\* resource as they were.
Untouched(r) == r.to = r.from /\ r.dirty1 = r.dirty0 /\ r.res1 = r.res0

\* The blocked bit of the tile at position p.
TileBlocked(p) ==
    /\ p.z \in Floors /\ p.x \in 0 .. Width - 1 /\ p.y \in 0 .. Height - 1
    /\ blocked_tiles[p.z][p.y * Width + p.x]

\* The non-player entities that have position p.
Others(p) == {e \in Entities \ {Player} : posn[e] = p}

\* The tile a vertical move arrives at: through the portal if there is one.
Arrival(r) ==
    IF IsVertical(r.dir) /\ r.from \in DOMAIN portals
    THEN portals[r.from] ELSE r.desired

\* C1: a PlayerMove whose target tile (the tile the move would arrive at) is
\* marked blocked leaves the player's Position, the Viewshed dirty flag and
\* the mirrored Position resource as they were.
C1_BlockedMoveChangesNothing ==
    \A r \in Handled : TileBlocked(Arrival(r)) => Untouched(r)

\* C2: the mirrored Position resource always equals the player's Position,
\* and every accepted move leaves the player's Viewshed dirty.
C2_MirrorInSync ==
    /\ p_posn_res = posn[Player]
    /\ \A r \in Handled :
          /\ r.res1 = r.to
          /\ (r.outcome = "moved" => r.dirty1)

C2_Witness ==
    /\ Len(mv_trace) = 2
    /\ mv_trace[1].outcome = "moved" /\ ~mv_trace[1].dirty0
    /\ mv_trace[1].to # mv_trace[1].from
    /\ mv_trace[2].outcome = "blocked"
    /\ p_posn_res = mv_trace[1].to

\* C3: a vertical move whose computed target z is below 0 or at/above the
\* number of floors is skipped without a fault and changes nothing.
C3_InvalidZIsSkipped ==
    \A r \in Handled :
        (IsVertical(r.dir) /\ (r.desired.z < 0 \/ r.desired.z >= NumFloors))
            => (r.outcome # "panic" /\ ~fault /\ Untouched(r))

C5_VerticalDestination ==
    \A r \in Handled :
        (IsVertical(r.dir) /\ r.outcome = "moved")
        => r.to = (IF r.from \in DOMAIN portals THEN portals[r.from]
                   ELSE Position(r.from.x, r.from.y,
                                 r.from.z + (IF r.dir = "UP" THEN 1 ELSE -1)))

C5_Witness ==
    \E r \in Handled :
        /\ IsVertical(r.dir) /\ r.outcome = "moved"
        /\ r.from \in DOMAIN portals
        /\ r.to.x # r.from.x
        /\ posn[Player] = portals[r.from]

\* C6: a move is rejected exactly when the tile the player would actually
\* arrive at is marked blocked (for a portal, the destination tile), so the
\* player never ends a move standing on a blocked tile.
C6_RejectedIffArrivalBlocked ==
    \A r \in Handled :
        /\ (r.outcome = "blocked" => TileBlocked(Arrival(r)))
        /\ (r.outcome = "moved" => ~TileBlocked(r.to))

\* C7: a rejected move into a blocked tile tells the player exactly one
\* obstruction narration: it names a non-player entity positioned at the
\* target if there is one, and otherwise the tile type of the target tile.
C7_ObstructionNarration ==
    \A r \in Handled :
        r.outcome = "blocked"
        => /\ Len(r.said) = 1
           /\ IF Others(r.target) # {}
              THEN /\ r.said[1].text = "The way {} is blocked by a {}."
                   /\ Len(r.said[1].names) = 1
                   /\ r.said[1].names[1] \in {NameOf(e) : e \in Others(r.target)}
              ELSE /\ r.said[1].text = "The way {} is blocked by the {}."
                   /\ r.said[1].ttype
                        = TileTypeAt(r.target.x, r.target.y, r.target.z)

\* C8: after an accepted move onto a tile holding n other positioned
\* entities, n = 0 tells nothing, 1 <= n <= 3 tells one narration listing
\* all n names, and n > 3 tells one "some stuff" narration naming none.
C8_ContentsSummary ==
    \A r \in Handled :
        r.outcome = "moved"
        => LET n == Cardinality(Others(r.to))
           IN  /\ (n = 0 => r.said = <<>>)
               /\ (n \in 1 .. 3 =>
                      /\ Len(r.said) = 1
                      /\ r.said[1].text = "There's a {} here."
                      /\ Len(r.said[1].names) = n
                      /\ {r.said[1].names[k] : k \in 1 .. n}
                            = {NameOf(e) : e \in Others(r.to)})
               /\ (n > 3 =>
                      /\ Len(r.said) = 1
                      /\ r.said[1].text
                            = "There's some stuff here on the ground."
                      /\ r.said[1].names = <<>>)

C8_Witness ==
    \E r \in Handled :
        /\ r.outcome = "moved"
        /\ Cardinality(Others(r.to)) = 3
        /\ Len(r.said) = 1 /\ Len(r.said[1].names) = 3
        /\ msglog[Len(msglog)] = r.said[1]

\* C9: every PlayerMove event of a tick is handled by the movement pass of
\* that tick; a rejected move does not leave later move events unhandled.
C9_EveryMoveHandled ==
    (pc = "openable" /\ ~fault)
        => /\ Len(mv_trace)
                = Len(SelectSeq(events, LAMBDA ev : ev.etype = "PlayerMove"))
           /\ mv_unread = <<>>

\* C10: after a map-indexing pass, a tile is blocked exactly when its
\* terrain blocks by type or an Obstructive entity is positioned on it.
C10_BlockedIffTerrainOrObstructive ==
    pc = "movement"
        => \A f \in Floors : \A i \in TileIndexes :
              blocked_tiles[f][i]
                <=> \/ TileTypeAt(i % Width, i \div Width, f) = "Wall"
                    \/ \E e \in obstructive :
                          posn[e] = Position(i % Width, i \div Width, f)

C10_Witness ==
    /\ pc = "movement"
    /\ door_open[Door] /\ Door \notin obstructive
    /\ ~TileBlocked(posn[Door])
    /\ TileBlocked(posn[Player]) /\ TileBlocked(posn[LMR])
    /\ \E f \in Floors : \E i \in TileIndexes :
          blocked_tiles[f][i] /\ tiles[f][i] = "Wall"

\* C11: the revealed tiles of a floor never shrink, and a revealed bit is set
\* only by the visibility pass, on the player's floor, for a tile the player
\* sees after that pass.
C11_RevealedOnlyGrows ==
    [][\A f \in Floors : \A i \in TileIndexes :
          /\ revealed_tiles[f][i] => revealed_tiles'[f][i]
          /\ (~revealed_tiles[f][i] /\ revealed_tiles'[f][i])
               => /\ pc = "visibility"
                  /\ f = posn[Player].z
                  /\ [x |-> i % Width, y |-> i \div Width]
                       \in visible_tiles'[Player]]_vars

\* The player has looked around twice on a map it has seen parts of, while
\* the LMR sees tiles of another floor of which nothing is revealed.
C11_Witness ==
    /\ pc = "update" /\ sent = MaxEvents
    /\ \E i \in TileIndexes : revealed_tiles[posn[Player].z][i]
    /\ posn[LMR].z # posn[Player].z
    /\ visible_tiles[LMR] # {}
    /\ \A i \in TileIndexes : ~revealed_tiles[posn[LMR].z][i]

\* C12: a visibility pass leaves no Viewshed dirty, keeps the visible tiles
\* of every Viewshed that was not dirty, and every tile of a recomputed list
\* lies within the bounds of the floor.
C12_VisibilityPass ==
    [][pc = "visibility" =>
          \A e \in DOMAIN dirty :
             /\ ~dirty'[e]
             /\ ~dirty[e] => visible_tiles'[e] = visible_tiles[e]
             /\ dirty[e] => \A p \in visible_tiles'[e] :
                                /\ 0 <= p.x /\ p.x < Width
                                /\ 0 <= p.y /\ p.y < Height]_vars

\* A pass has left alone the list of a clean Viewshed that a new scan would
\* change, and has recomputed the list of the other.
C12_Witness ==
    /\ pc = "update"
    /\ visible_tiles[LMR] # {} /\ visible_tiles[LMR] # Recomputed(LMR)
    /\ visible_tiles[Player] = Recomputed(Player)
    /\ \E q \in SightWindow :
          /\ ~InMapBounds(q)
          /\ q \in field_of_view(posn_to_point(posn[Player]), PlayerRange,
                                  opaque_tiles[posn[Player].z])

\* The events of the tick that ask for an open or close and have a context.
DoorActs ==
    {i \in DOMAIN events :
        /\ events[i].etype \in {"ActorOpen", "ActorClose"}
        /\ events[i].context # <<>>}

\* Those of them that name the entity d as their object.
DoorActsOn(d) == {i \in DoorActs : events[i].context[2] = d}

Latest(indexes) == CHOOSE i \in indexes : \A j \in indexes : j <= i

\* The openable pass is the step being taken.
OpenablePassRuns == pc = "openable" /\ pc' = "visibility"

\* C13: an open (close) of a door leaves that door open, with the open glyph,
\* not opaque and not Obstructive (closed, closed glyph, opaque, Obstructive);
\* the actor's viewshed is dirty afterwards; a door no act names, and the
\* Opaque and Obstructive state of everything that is no door, stay as they
\* were.
C13_OpenCloseSetsTheDoor ==
    [][OpenablePassRuns =>
          /\ \A d \in Doors :
                IF DoorActsOn(d) = {}
                THEN /\ door_open'[d] = door_open[d]
                     /\ door_glyph'[d] = door_glyph[d]
                     /\ opaque'[d] = opaque[d]
                     /\ (d \in obstructive') = (d \in obstructive)
                ELSE LET opening ==
                           events[Latest(DoorActsOn(d))].etype = "ActorOpen"
                     IN  /\ door_open'[d] = opening
                         /\ door_glyph'[d] = (IF opening THEN "open_glyph"
                                              ELSE "closed_glyph")
                         /\ opaque'[d] = ~opening
                         /\ (d \in obstructive') = ~opening
          /\ \A i \in DoorActs :
                events[i].context[2] \in Doors => dirty'[events[i].context[1]]
          /\ \A e \in DOMAIN opaque \ Doors : opaque'[e] = opaque[e]
          /\ obstructive' \ Doors = obstructive \ Doors]_vars

\* The LMR has just closed the upper door while the lower door, opened a
\* tick earlier, stays open.
C13_Witness ==
    /\ pc = "visibility"
    /\ events = <<[etype |-> "ActorClose", dir |-> "X",
                   context |-> <<LMR, Door2>>]>>
    /\ ~door_open[Door2] /\ door_glyph[Door2] = "closed_glyph"
    /\ opaque[Door2] /\ Door2 \in obstructive
    /\ door_open[Door] /\ door_glyph[Door] = "open_glyph"
    /\ ~opaque[Door] /\ Door \notin obstructive
    /\ dirty[LMR]

\* C15: a pass whose open and close acts all name something that is no door
\* changes no door and narrates nothing.
C15_NonDoorIsNoOp ==
    [][(OpenablePassRuns /\ \A i \in DoorActs : ~IsDoor(events[i].context[2]))
          => /\ door_open' = door_open
             /\ door_glyph' = door_glyph
             /\ opaque' = opaque
             /\ obstructive' = obstructive
             /\ msglog' = msglog]_vars

\* The events of the tick that ask for a lock or unlock and have a context.
LockActs ==
    {i \in DOMAIN events :
        /\ events[i].etype \in {"ActorLock", "ActorUnlock"}
        /\ events[i].context # <<>>}

\* The lock pass is the step being taken.
LockPassRuns == pc = "input" /\ pc' = "operable"

\* The lock pass is the step being taken and handles one act, of the kind.
SoleLockAct(etype) ==
    /\ LockPassRuns
    /\ Cardinality(LockActs) = 1
    /\ events[Latest(LockActs)].etype = etype

\* The ids of the keys an actor carries.
KeyIdsOf(actor) == {keys[k].key_id : k \in {c \in Keys : keys[c].carrier = actor}}

\* C16: a lock act leaves its target locked and its key id as it was, and
\* tells one narration: second person for the player, third person naming
\* the actor otherwise.
C16_LockAlwaysLocks ==
    [][/\ LockPassRuns => \A d \in DOMAIN lockable :
                             lockable'[d].key = lockable[d].key
       /\ SoleLockAct("ActorLock") =>
             LET ev == events[Latest(LockActs)]
                 actor == ev.context[1]
                 target == ev.context[2]
             IN  /\ lockable'[target].is_locked
                 /\ Len(msglog') = Len(msglog) + 1
                 /\ msglog'[Len(msglog')].text =
                       (IF actor = Player
                        THEN "You tap the LOCK button on the {}."
                        ELSE "The {} locks the {}.")
                 /\ msglog'[Len(msglog')].names =
                       (IF actor = Player THEN <<NameOf(target)>>
                        ELSE <<NameOf(actor), NameOf(target)>>)]_vars

\* The LMR has locked the door, which was locked before.
C16_Witness ==
    /\ pc = "operable" /\ sent = MaxEvents
    /\ events = <<[etype |-> "ActorLock", dir |-> "X",
                   context |-> <<LMR, Door>>]>>
    /\ lockable[Door].is_locked
    /\ Len(msglog) = 2
    /\ msglog[1].text = "You tap the LOCK button on the {}."
    /\ msglog[2].text = "The {} locks the {}."

\* C17: an unlock by the player, who carries a key that fits, leaves the
\* target unlocked and tells the success narration and nothing else.
C17_FittingKeyUnlocks ==
    [][(/\ SoleLockAct("ActorUnlock")
        /\ events[Latest(LockActs)].context[1] = Player
        /\ lockable[events[Latest(LockActs)].context[2]].key
             \in KeyIdsOf(Player))
          => /\ ~lockable'[events[Latest(LockActs)].context[2]].is_locked
             /\ Len(msglog') = Len(msglog) + 1
             /\ msglog'[Len(msglog')].text = "Your {} unlocks the {}."]_vars

\* C18: an unlock by an actor who carries no key that fits leaves the lock as
\* it was; the player is told of the wrong key when carrying a key at all,
\* and nothing is told otherwise.
C18_NoFittingKey ==
    [][(/\ SoleLockAct("ActorUnlock")
        /\ lockable[events[Latest(LockActs)].context[2]].key
             \notin KeyIdsOf(events[Latest(LockActs)].context[1]))
          => LET actor == events[Latest(LockActs)].context[1]
                 target == events[Latest(LockActs)].context[2]
             IN  /\ lockable'[target] = lockable[target]
                 /\ IF actor = Player /\ KeyIdsOf(actor) # {}
                    THEN /\ Len(msglog') = Len(msglog) + 1
                         /\ msglog'[Len(msglog')].text =
                               "You don't seem to have the right key."
                    ELSE msglog' = msglog]_vars

\* The player, carrying only keys that do not fit, has tried a locked door
\* and has been told so.
C18_Witness ==
    /\ pc = "operable"
    /\ events = <<[etype |-> "ActorUnlock", dir |-> "X",
                   context |-> <<Player, Door>>]>>
    /\ KeyIdsOf(Player) # {} /\ lockable[Door].key \notin KeyIdsOf(Player)
    /\ lockable[Door].key \in KeyIdsOf(LMR)
    /\ lockable[Door].is_locked
    /\ msglog = <<WrongKeyFeedback>>

\* The Lockable a remembered call has left behind.
LeftBy(i) ==
    IF i < Len(lock_calls) THEN lock_calls[i + 1].before ELSE lock_obj

\* C19: unlock(k) clears is_locked and returns true exactly when k is the
\* key, and otherwise changes nothing and returns false; lock(0) locks and
\* keeps the key; lock(n), n not 0, locks and takes n as the key; unlock with
\* the key followed by lock(0) leaves the key as it was.
C19_LockableMethods ==
    /\ \A i \in DOMAIN lock_calls :
          LET call == lock_calls[i]
              was == call.before
              now == LeftBy(i)
          IN  IF call.op = "unlock"
              THEN IF call.arg = was.key
                   THEN /\ call.ret = TRUE
                        /\ ~now.is_locked /\ now.key = was.key
                   ELSE call.ret = FALSE /\ now = was
              ELSE /\ now.is_locked
                   /\ now.key = (IF call.arg = 0 THEN was.key ELSE call.arg)
    /\ (/\ Len(lock_calls) = 2
        /\ lock_calls[1].op = "unlock"
        /\ lock_calls[1].arg = lock_calls[1].before.key
        /\ lock_calls[2].op = "lock" /\ lock_calls[2].arg = 0)
          => lock_obj.key = lock_calls[1].before.key

\* A locked Lockable with a key of its own has been unlocked with it and
\* locked again with no new key.
C19_Witness ==
    /\ Len(lock_calls) = 2
    /\ lock_calls[1].op = "unlock"
    /\ lock_calls[1].before.is_locked /\ lock_calls[1].before.key # 0
    /\ lock_calls[1].arg = lock_calls[1].before.key
    /\ lock_calls[2].op = "lock" /\ lock_calls[2].arg = 0
    /\ lock_obj.is_locked /\ lock_obj.key = lock_calls[1].before.key

\* The operable pass is the step being taken.
OperablePassRuns == pc = "operable" /\ pc' = "openable"

\* The uses of the device the pass gets to: those with a full context that
\* no use without a context precedes.
DeviceUses ==
    {i \in DOMAIN events :
        /\ events[i].etype = "ItemUse"
        /\ events[i].context # <<>>
        /\ ~is_invalid(events[i].context)
        /\ \A j \in 1 .. i :
              events[j].etype = "ItemUse" => events[j].context # <<>>}

\* C20: a use of the device leaves its power switch on, whether it was off
\* or on before, and the pass changes no other field of the device.
C20_UseSwitchesOn ==
    [][OperablePassRuns =>
          /\ DeviceUses # {} => device'.pw_switch
          /\ DeviceUses = {} => device' = device
          /\ device' = [device EXCEPT !.pw_switch = device'.pw_switch]]_vars

\* The PLANQ has been used twice in one tick and is switched on.
C20_Witness ==
    /\ pc = "openable" /\ ~fault
    /\ events = <<[etype |-> "ItemUse", dir |-> "X",
                   context |-> <<Player, Planq>>],
                  [etype |-> "ItemUse", dir |-> "X",
                   context |-> <<Player, Planq>>]>>
    /\ device = [pw_switch |-> TRUE, batt_voltage |-> 100,
                 batt_discharge |-> -1, state |-> "Offline"]

\* C14: a pass of the lock, operable or openable system over events that all
\* lack a context changes nothing, narrates nothing and does not fault.
C14_NoContextIsSkipped ==
    [][(/\ LockPassRuns \/ OperablePassRuns \/ OpenablePassRuns
        /\ events # <<>>
        /\ \A i \in DOMAIN events : events[i].context = <<>>)
          => /\ ~fault'
             /\ UNCHANGED <<msglog, device, lockable, door_open, door_glyph, door_stuck,
                            opaque, obstructive, dirty>>]_vars

\* The item collection pass is the step being taken.
CollectPassRuns ==
    sched = ItemSchedule /\ pc = "input" /\ pc' = After("item_collection")

\* The events of the tick that move or drop something, with a context that
\* names a subject and an object.
ItemActs ==
    {i \in DOMAIN events :
        /\ events[i].etype \in {"ItemMove", "ItemDrop"}
        /\ events[i].context # <<>>
        /\ ~is_invalid(events[i].context)}

\* Those of them that name the entity o as their object.
ItemActsOn(o) == {i \in ItemActs : events[i].context[2] = o}

\* No item that exists has a Position while somebody carries it.
HeldOrPlaced ==
    \A o \in Portables \ despawned :
        posn[o] = NoPosition \/ carrier[o] = Placeholder

\* C22: no item has both a Position and a carrier other than the
\* placeholder; after a pass that completes, an item that still exists and
\* was moved last is carried by the subject of the move and has no Position,
\* and one that was dropped last is carried by the placeholder and lies
\* where the subject of the drop stood.
C22_ItemsAreHeldOrPlaced ==
    /\ []HeldOrPlaced
    /\ [][(CollectPassRuns /\ ~fault') =>
            \A o \in Portables \ despawned' : ItemActsOn(o) # {} =>
                LET last == events[Latest(ItemActsOn(o))]
                IN  IF last.etype = "ItemMove"
                    THEN /\ carrier'[o] = last.context[1]
                         /\ posn'[o] = NoPosition
                    ELSE /\ carrier'[o] = Placeholder
                         /\ posn'[o] = posn[last.context[1]]]_vars

\* The player has picked the PLANQ up and dropped it on another tile than
\* the one it lay on.
C22_Witness ==
    /\ ~fault /\ pc = "update" /\ sent = MaxEvents
    /\ events = <<[etype |-> "ItemDrop", dir |-> "X",
                   context |-> <<Player, Planq>>]>>
    /\ carrier[Planq] = Placeholder
    /\ posn[Planq] = posn[Player] /\ posn[Planq] # PlanqPost
    /\ \E i \in DOMAIN msglog : msglog[i].text = "Obtained a {}."

\* C23: a pass over ItemKILL events that all have a valid context completes,
\* leaves every object they name despawned and narrates nothing, whatever the
\* subject and the object are.
C23_KillAlwaysDespawns ==
    [][(/\ CollectPassRuns
        /\ events # <<>>
        /\ \A i \in DOMAIN events :
              /\ events[i].etype = "ItemKILL"
              /\ events[i].context # <<>>
              /\ ~is_invalid(events[i].context))
          => /\ ~fault'
             /\ \A i \in DOMAIN events : events[i].context[2] \in despawned'
             /\ msglog' = msglog]_vars

\* The device pass is the step being taken.
PlanqPassRuns == pc = "planq" /\ pc' = After("planq")

\* The pass ran the last boot stage: it announced stage 4 and went idle.
BootEndsInPass ==
    /\ planq'.cpu_mode = "Idle" /\ planq'.boot_stage = 4
    /\ planq_log' = boot_message(planq_log, 4)

\* C21: a device pass that finds the switch on and the recorded power state
\* off shows the terminal and sets the cpu mode to Startup, which the pass
\* leaves only by completing the boot; one that finds the switch off and the
\* recorded state on leaves the cpu mode Shutdown; after every device pass
\* the recorded power state equals the switch.
C21_PowerFollowsTheSwitch ==
    [][(PlanqPassRuns /\ ~fault') =>
          /\ planq'.power_is_on = device.pw_switch
          /\ (device.pw_switch /\ ~planq.power_is_on) =>
                /\ planq'.show_terminal
                /\ planq'.cpu_mode = "Startup" \/ BootEndsInPass
          /\ (~device.pw_switch /\ planq.power_is_on) =>
                planq'.cpu_mode = "Shutdown"]_vars

\* The PLANQ has been switched on and then off again: the last device pass
\* found the switch off and left the cpu mode Shutdown.
C21_Witness ==
    /\ pc = "update" /\ ~fault /\ sched = PlanqSchedule
    /\ ~device.pw_switch /\ ~planq.power_is_on
    /\ planq.show_terminal /\ planq.cpu_mode = "Shutdown"

\* The pass wrote the line of the boot stage it leaves the PLANQ in.
Announced == planq_log' = boot_message(planq_log, planq'.boot_stage)

\* The number of status bars of the player's location.
LocationBars ==
    Cardinality({i \in DOMAIN monitor.status_bars :
                    monitor.status_bars[i] = "player_location"})

\* The number of sampling timers of the player's location.
LocationSamplers ==
    Cardinality({i \in DOMAIN samplers :
                    samplers[i].source = "player_location"})

\* C24: with the power button as the only input, a device pass keeps the
\* boot stage or moves it to the next one, never beyond 4; it writes a boot
\* message exactly when it enters a stage (stage 0: when it spawns the boot
\* process, which happens once, from an empty process table); the
\* "player_location" status bar is registered once, in the pass that enters
\* stage 4 and goes idle; and an idle PLANQ stays idle, at stage 4, with one
\* process, one such bar and one sampling timer for it.
C24_BootRunsEachStageOnce ==
    /\ [](planq.cpu_mode = "Idle" =>
            /\ planq.boot_stage = 4 /\ Len(procs) = 1
            /\ LocationBars = 1 /\ LocationSamplers = 1)
    /\ [](planq.cpu_mode # "Idle" =>
            LocationBars = 0 /\ LocationSamplers = 0)
    /\ [][PlanqPassRuns =>
            /\ ~fault'
            /\ planq'.boot_stage \in {planq.boot_stage, planq.boot_stage + 1}
            /\ planq'.boot_stage <= 4
            /\ planq'.boot_stage # planq.boot_stage => Announced
            /\ procs = <<>> /\ procs' # <<>> =>
                  /\ Len(procs') = 1 /\ planq'.boot_stage = 0 /\ Announced
            /\ procs # <<>> => Len(procs') = 1
            /\ (planq'.boot_stage = planq.boot_stage /\ Len(procs') = Len(procs))
                  => \/ planq_log' = planq_log
                     \/ /\ planq'.cpu_mode = "Idle"
                        /\ planq_log' = replace(planq_log,
                                                idle_message(time.clock))
            /\ monitor'.status_bars # monitor.status_bars =>
                  /\ planq.boot_stage = 3 /\ planq'.boot_stage = 4
                  /\ planq.cpu_mode = "Startup" /\ planq'.cpu_mode = "Idle"
            /\ planq.cpu_mode = "Idle" => planq'.cpu_mode = "Idle"]_vars

\* The boot has run through: the transcript holds the lines of stages 0 to
\* 3 in order and the idle indicator where the line of stage 4 was.
C24_Witness ==
    /\ sched = PlanqSchedule /\ pevents = <<>> /\ ~fault
    /\ planq.cpu_mode = "Idle" /\ planq.boot_stage = 4
    /\ Len(planq_log) = 5
    /\ \A k \in 1 .. 4 : planq_log[k].names = <<k - 1>>
    /\ planq_log[5].text = "-=[ ]=-"
    /\ monitor.status_bars = <<"player_location">>

\* C25: with the power button as the only input and frames of positive
\* duration, a PLANQ in Startup mode eventually is in Idle mode; and a pass
\* moves the boot stage on only if, when it began, the timer of the boot
\* process had run its full time and the process carried the next stage as
\* its outcome.
C25_BootReachesIdle ==
    /\ (planq.cpu_mode = "Startup") ~> (planq.cpu_mode = "Idle")
    /\ [][(PlanqPassRuns /\ planq'.boot_stage # planq.boot_stage) =>
            /\ procs # <<>>
            /\ procs[1].timer.finished /\ procs[1].timer.just_finished
            /\ procs[1].timer.elapsed = BootTime
            /\ procs[1].outcome = PlanqEvent("BootStage", planq'.boot_stage)
          ]_vars

\* The PLANQ is switched on and idle, and its boot process has finished
\* the last stage.
C25_Witness ==
    /\ sched = PlanqSchedule /\ ~fault /\ pc = "input"
    /\ planq.power_is_on /\ planq.cpu_mode = "Idle"
    /\ procs # <<>> /\ procs[1].timer.finished
    /\ procs[1].outcome = PlanqEvent("NullEvent", 0)

\* The pass finds the PLANQ idle and nothing that changes its mode: no
\* PlanqEvent and the switch where the recorded power state is.
IdlePassRuns ==
    /\ PlanqPassRuns /\ ~fault'
    /\ planq.cpu_mode = "Idle" /\ pevents = <<>>
    /\ device.pw_switch = planq.power_is_on

\* C26: a device pass that finds the PLANQ idle and leaves it idle, with
\* exactly one process in the table, puts the idle indicator in the place of
\* the latest line of the transcript, whose other lines and length stay as
\* they were; with any other number of processes it leaves the transcript
\* alone.
C26_IdleReplacesTheLatestLine ==
    [][IdlePassRuns =>
          /\ planq'.cpu_mode = "Idle"
          /\ Len(planq.proc_table) = 1 =>
                /\ planq_log # <<>>
                /\ Len(planq_log') = Len(planq_log)
                /\ planq_log'[Len(planq_log)] = idle_message(time.clock)
                /\ \A i \in 1 .. Len(planq_log) - 1 :
                      planq_log'[i] = planq_log[i]
          /\ Len(planq.proc_table) # 1 => planq_log' = planq_log]_vars

\* The PLANQ has booted and idled through a pass at a second that is no
\* multiple of ten: the indicator stands in the fifth line, moved off the
\* place it has at second 0.
C26_Witness ==
    /\ sched = PlanqSchedule /\ pc = "update" /\ ~fault
    /\ planq.cpu_mode = "Idle" /\ Len(planq.proc_table) = 1
    /\ Len(planq_log) = 5
    /\ time.clock = 7 /\ planq_log[5] = idle_message(7)
    /\ planq_log[4].text = "boot stage {}"

\* C27: a device pass advances every process timer that has not finished
\* by the frame's duration, up to the timer's own; and whatever the cpu mode,
\* a pass that finds a timer just finished applies the outcome that process
\* carries: a BootStage outcome is the boot stage the pass leaves.
C27_OutcomesAreConsumed ==
    [][(PlanqPassRuns /\ ~fault') =>
          \A i \in DOMAIN procs :
             /\ ~procs[i].timer.finished =>
                   procs'[i].timer.elapsed =
                       IF procs[i].timer.elapsed + time.delta
                              >= procs[i].timer.duration
                       THEN procs[i].timer.duration
                       ELSE procs[i].timer.elapsed + time.delta
             /\ (/\ procs[i].timer.just_finished
                 /\ procs[i].outcome.etype = "BootStage")
                   => planq'.boot_stage = procs[i].outcome.lvl]_vars

\* The status-monitor pass is the step being taken.
MonitorPassRuns == pc = "planq_monitor" /\ pc' = After("planq_monitor")

\* The samples of the sparkline, oldest first.
Sparkline == monitor.raw_data["test_sparkline"][2]

\* The timer of the sparkline has finished: the pass will push a sample.
SparklineDue ==
    \E i \in DOMAIN samplers :
        samplers[i].source = "test_sparkline" /\ samplers[i].timer.finished

\* C28: the sparkline never holds more than 31 samples; a pass that finds
\* its timer finished leaves a tail of the old samples followed by the new
\* one, so what a push evicts comes off the front and what stays is in the
\* order of arrival; any other pass leaves the samples alone.
C28_SeriesKeepsTheLatest ==
    /\ [](Len(Sparkline) <= 31)
    /\ [][(MonitorPassRuns /\ ~fault') =>
            IF SparklineDue
            THEN \E sample \in 0 .. 9, evicted \in 0 .. Len(Sparkline) :
                    Sparkline' =
                        SubSeq(Sparkline, evicted + 1, Len(Sparkline))
                            \o <<sample>>
            ELSE Sparkline' = Sparkline]_vars

\* The sparkline is as full as it gets and has evicted its first samples:
\* the oldest sample it holds is the seventh that was drawn.
C28_Witness ==
    /\ sched = MonitorSchedule /\ pc = "update" /\ ~fault
    /\ Len(Sparkline) >= 30
    /\ \A i \in 1 .. 30 : Sparkline[i] = Draw(5 + i, 10)

\* C29: a push onto fewer than 31 samples evicts nothing and leaves one
\* sample more, so that a series of 30 grows to 31; only a push onto 31
\* samples evicts the oldest.
C29_SeriesHoldsThirtyOne ==
    [][(MonitorPassRuns /\ ~fault' /\ SparklineDue) =>
          IF Len(Sparkline) < 31
          THEN /\ Len(Sparkline') = Len(Sparkline) + 1
               /\ SubSeq(Sparkline', 1, Len(Sparkline)) = Sparkline
          ELSE /\ Len(Sparkline') = 31
               /\ SubSeq(Sparkline', 1, 30) = Tail(Sparkline)]_vars

\* The sampling timers of the source k.
TimersOf(k) == {i \in DOMAIN samplers : samplers[i].source = k}

\* C30: a status-monitor pass changes the stored value of a source only if
\* a timer of that source had finished when the pass began: the source is
\* then sampled anew (the time of day is the clock's) and the timer reset; a
\* timer that had not finished is advanced by the frame's duration, up to its
\* own, and the value of its source stays as it was, whatever the other
\* timers do; the pass adds no source, no timer and no entry.
C30_OnlyDueSourcesChange ==
    [][(MonitorPassRuns /\ ~fault') =>
          /\ DOMAIN monitor'.raw_data = DOMAIN monitor.raw_data
          /\ monitor'.status_bars = monitor.status_bars
          /\ Len(samplers') = Len(samplers)
          /\ \A k \in DOMAIN monitor.raw_data :
                (\A i \in TimersOf(k) : ~samplers[i].timer.finished)
                   => monitor'.raw_data[k] = monitor.raw_data[k]
          /\ \A i \in DOMAIN samplers :
                /\ samplers'[i].source = samplers[i].source
                /\ samplers'[i].timer.duration = samplers[i].timer.duration
                /\ IF samplers[i].timer.finished
                   THEN /\ samplers'[i].timer.elapsed = 0
                        /\ ~samplers'[i].timer.finished
                        /\ samplers[i].source = "current_time" =>
                              monitor'.raw_data["current_time"]
                                  = Text(time.clock)
                   ELSE /\ samplers'[i].timer.elapsed =
                              IF samplers[i].timer.elapsed + time.delta
                                     >= samplers[i].timer.duration
                              THEN samplers[i].timer.duration
                              ELSE samplers[i].timer.elapsed + time.delta
                        /\ samplers'[i].timer.finished =
                              (samplers'[i].timer.elapsed
                                   = samplers[i].timer.duration)]_vars

\* The time of day has just been sampled at second 2 and its timer reset,
\* while the timer of the sparkline has run out and that of the gauge is in
\* mid-run: the sparkline still holds the one sample it held.
C30_Witness ==
    /\ sched = MonitorSchedule /\ pc = "update" /\ ~fault
    /\ time.clock = 2 /\ time.delta = 1
    /\ monitor.raw_data["current_time"] = Text(time.clock)
    /\ samplers[2].timer = NewTimer(SampleTime)
    /\ samplers[3].timer.finished
    /\ samplers[4].timer.elapsed > 0 /\ ~samplers[4].timer.finished
    /\ Sparkline = <<0>>


\* The directions that lead from p to a target.
Recovered(p, target) == {d \in Directions : DesiredTarget(p, d) = target}

\* The step a call of the movement system worked out.
StepTaken ==
    <<probe.target.x - probe.self.x, probe.target.y - probe.self.y,
      probe.target.z - probe.self.z>>

\* C31: the step of every direction from every position is not zero, has
\* its components in {-1,0,1}, leaves z alone for the eight compass
\* directions and changes only z for UP and DOWN, and no other direction
\* leads from that position to the same target: the direction is recovered
\* from the target and the position.
C31_DirectionIsRecoverable ==
    (probe # <<>> /\ probe.call = "target" /\ probe.done) =>
        /\ StepTaken # <<0, 0, 0>>
        /\ \A i \in 1 .. 3 : StepTaken[i] \in {-1, 0, 1}
        /\ IsVertical(probe.dir) =>
              StepTaken[1] = 0 /\ StepTaken[2] = 0 /\ StepTaken[3] # 0
        /\ ~IsVertical(probe.dir) =>
              StepTaken[3] = 0 /\ (StepTaken[1] # 0 \/ StepTaken[2] # 0)
        /\ Recovered(probe.self, probe.target) = {probe.dir}
        /\ \A d \in Directions \ {probe.dir} :
              DirectionDelta(d) # DirectionDelta(probe.dir)

\* A step to the north-east has been worked out.
C31_Witness ==
    /\ probe # <<>> /\ probe.call = "target" /\ probe.done
    /\ probe.dir = "NE"
    /\ probe.self = Position(1, 2, 1)
    /\ probe.target = Position(2, 1, 1)

\* The distances along x and along y between the two positions of a call.
AcrossX == IF probe.target.x >= probe.self.x
           THEN probe.target.x - probe.self.x
           ELSE probe.self.x - probe.target.x

AcrossY == IF probe.target.y >= probe.self.y
           THEN probe.target.y - probe.self.y
           ELSE probe.self.y - probe.target.y

\* C32: in_range_of is false when the floors differ; for range 0 it holds
\* iff the positions are equal; for a range r >= 1 on one floor it holds iff
\* the distance in x,y, rounded to the nearest whole number, is at most r
\* (the distance lies below r + 1/2); the two positions may be exchanged;
\* and is_adjacent_to holds exactly for two positions of one floor that are
\* at most one apart in x and in y.
C32_RangeAndAdjacency ==
    /\ (probe # <<>> /\ probe.done /\ probe.call = "in_range_of") =>
          /\ probe.self.z # probe.target.z => ~probe.result
          /\ probe.range = 0 => (probe.result <=> probe.self = probe.target)
          /\ (probe.range >= 1 /\ probe.self.z = probe.target.z) =>
                (probe.result <=>
                   4 * (AcrossX * AcrossX + AcrossY * AcrossY)
                     < (2 * probe.range + 1) * (2 * probe.range + 1))
          /\ probe.result = in_range_of(probe.target, probe.self, probe.range)
    /\ (probe # <<>> /\ probe.done /\ probe.call = "is_adjacent_to") =>
          (probe.result <=>
             /\ probe.self.z = probe.target.z
             /\ AcrossX <= 1
             /\ AcrossY <= 1)

\* Two steps along x and two along y are at a distance that rounds to
\* three: out of range two.
C32_Witness ==
    /\ probe # <<>> /\ probe.done /\ probe.call = "in_range_of"
    /\ probe.self = Position(0, 0, 1)
    /\ probe.target = Position(2, 2, 1)
    /\ probe.range = 2
    /\ ~probe.result

\* A pass of the engine system.
EnginePassRuns ==
    sched = EngineSchedule /\ pc = "input" /\ pc' = After("engine")

\* The mode the engine was in when the i-th event of the pass was handled.
ModeBefore(i) == IF i = 1 THEN state.mode ELSE mode_trace'[i - 1]

\* C34: in a pass of the engine system a PauseToggle turns Running into
\* Paused and Paused into Running and leaves any other mode as it is, so
\* that two of them in a row restore the mode; a ModeSwitch(m) sets the
\* mode to m whatever it was; any other event leaves the mode as it is.
\* Unless the pass ends in victory, the mode after the last event is the
\* mode the pass leaves.
C34_EventsSetTheMode ==
    [][EnginePassRuns =>
        /\ Len(mode_trace') = Len(events)
        /\ \A i \in DOMAIN events :
              /\ events[i].etype = "PauseToggle" =>
                    mode_trace'[i] =
                      (CASE ModeBefore(i) = "Running" -> "Paused"
                         [] ModeBefore(i) = "Paused" -> "Running"
                         [] OTHER -> ModeBefore(i))
              /\ events[i].etype = "ModeSwitch" =>
                    mode_trace'[i] = events[i].dir
              /\ events[i].etype \notin {"PauseToggle", "ModeSwitch"} =>
                    mode_trace'[i] = ModeBefore(i)
              /\ (i > 1 /\ events[i].etype = "PauseToggle"
                        /\ events[i - 1].etype = "PauseToggle") =>
                    mode_trace'[i] = ModeBefore(i - 1)
        /\ (~Victory /\ events # <<>>) =>
              state'.mode = mode_trace'[Len(events)]
        /\ (~Victory /\ events = <<>>) => state'.mode = state.mode]_vars

\* The engine has been switched to Standby and has then heard the pause
\* key, which left it in Standby.
C34_Witness ==
    /\ sched = EngineSchedule /\ pc = "item_collection"
    /\ Len(events) = 2
    /\ events[1] = ModeSwitch("Standby") /\ events[2] = PauseToggle
    /\ mode_trace = <<"Standby", "Standby">>
    /\ state.mode = "Standby"

\* C35: a pass of the engine system that finds the player at (28,1,1) with
\* the PLANQ in the pack (no Position, carried by the player) leaves the
\* mode GoodEnd and mode_changed true, whatever events it handled; a pass
\* that does not find this leaves mode_changed alone and the mode as the
\* events of the pass set it.
C35_VictoryEndsTheGame ==
    [][EnginePassRuns =>
        LET held == /\ posn[Player] = Position(28, 1, 1)
                    /\ Planq \notin despawned
                    /\ posn[Planq] = NoPosition
                    /\ carrier[Planq] = Player
        IN  /\ held => state' = [mode |-> "GoodEnd", mode_changed |-> TRUE]
            /\ ~held =>
                  /\ state'.mode_changed = state.mode_changed
                  /\ state'.mode =
                        IF events = <<>> THEN state.mode
                        ELSE mode_trace'[Len(events)]
                  /\ state'.mode = "GoodEnd" =>
                        \/ state.mode = "GoodEnd"
                        \/ \E i \in DOMAIN events :
                              events[i] = ModeSwitch("GoodEnd")]_vars

\* In the elevator, with the PLANQ in the pack, the engine was told to
\* pause: the game has ended all the same.
C35_Witness ==
    /\ sched = EngineSchedule /\ pc = "item_collection"
    /\ posn[Player] = Elevator
    /\ carrier[Planq] = Player /\ posn[Planq] = NoPosition
    /\ Planq \notin despawned
    /\ events = <<ModeSwitch("Paused")>>
    /\ mode_trace = <<"Paused">>
    /\ state = [mode |-> "GoodEnd", mode_changed |-> TRUE]

\* How often x occurs in a sequence.
Count(seq, x) == Cardinality({i \in DOMAIN seq : seq[i] = x})

\* The player picking up an item.
Taking(o) == [etype |-> "ItemMove", dir |-> "X", context |-> <<Player, o>>]

\* The events of the tick that move, drop or destroy something.
Transfers ==
    {i \in DOMAIN events :
        events[i].etype \in {"ItemMove", "ItemDrop", "ItemKILL"}}

\* A pass of system s in the tick of all the interaction systems.
CarryPass(s) == sched = CarrySchedule /\ Turn(s) /\ pc' = After(s)

\* The press of the power button toggles the switch.
PressToggles == device'.pw_switch = ~device.pw_switch

\* The press of the power button switches the device on: it toggles a
\* switch that is off and leaves alone one that is on.
PressSwitchesOn == device'.pw_switch

\* What a tick of the interaction systems does with an event that several
\* of them are interested in, and what each of them leaves alone; pressed
\* says what the operable system makes of a press of the power button.
Broadcast(pressed) ==
    /\ (CarryPass("operable") /\ Count(events, PowerButton) = 1) => pressed
    /\ (CarryPass("planq") /\ ~fault') =>
          /\ Count(msglog', ClickFeedback) =
                Count(msglog, ClickFeedback) + Count(events, PowerButton)
          /\ Len(samplers') =
                Len(samplers) + 3 * Count(events, Taking(Planq))
          /\ (\E o \in Portables : Count(events, Taking(o)) > 0) =>
                planq'.inventory_list = Backpack
          /\ (Count(events, Taking(Planq)) > 0
                /\ \A i \in DOMAIN events : events[i].etype # "ItemDrop") =>
                planq'.is_carried
    /\ (CarryPass("item_collection") /\ ~fault') =>
          \A o \in Portables \ despawned :
              (Transfers # {} /\ \A i \in Transfers : events[i] = Taking(o)) =>
                  carrier'[o] = Player /\ posn'[o] = NoPosition
    /\ CarryPass("openable") =>
          UNCHANGED <<lockable, keys, device, carrier, posn, despawned>>
    /\ CarryPass("lock") =>
          UNCHANGED <<door_open, door_glyph, door_stuck, opaque, obstructive, device,
                      carrier, posn, despawned>>
    /\ CarryPass("operable") =>
          UNCHANGED <<door_open, door_glyph, opaque, obstructive, lockable,
                      keys, carrier, posn, despawned>>
    /\ CarryPass("item_collection") =>
          UNCHANGED <<door_open, door_glyph, opaque, obstructive, lockable,
                      device>>

CpuModeAt(i) ==
    LET setters == {j \in 1 .. (i - 1) :
                      pevents[j].etype \in {"Startup", "Shutdown", "GoIdle"}}
        latest == CHOOSE j \in setters : \A k \in setters : k <= j
    IN  IF setters = {} THEN planq.cpu_mode
        ELSE IF pevents[latest].etype = "GoIdle" THEN "Idle"
        ELSE pevents[latest].etype

\* The CLI commands of the pass that take effect.
CliActs ==
    {i \in DOMAIN pevents :
        \/ pevents[i].etype = "CliClose"
        \/ /\ pevents[i].etype = "CliOpen"
           /\ CpuModeAt(i) \notin {"Startup", "Shutdown", "Offline"}}

\* C36: a CliOpen shows the CLI input and sets the action mode to CliInput
\* only if the cpu mode is not Startup, Shutdown or Offline when it is
\* handled, and changes nothing in these three modes; a CliClose always
\* hides the CLI input and sets the action mode to Default. A pass leaves
\* what its last effective CLI command has set.
C36_CliOpensOnlyWhenRunning ==
    [][(sched = CliSchedule /\ pc = "input" /\ pc' = After("planq")) =>
        IF CliActs = {}
        THEN /\ planq'.show_cli_input = planq.show_cli_input
             /\ planq'.action_mode = planq.action_mode
        ELSE LET last == CHOOSE i \in CliActs : \A k \in CliActs : k <= i
             IN  IF pevents[last].etype = "CliOpen"
                 THEN /\ planq'.show_cli_input
                      /\ planq'.action_mode = "CliInput"
                 ELSE /\ ~planq'.show_cli_input
                      /\ planq'.action_mode = "Default"]_vars

\* The CLI was opened while the PLANQ idled, and the PLANQ was shut down
\* after that: the CLI input is still shown.
C36_Witness ==
    /\ sched = CliSchedule /\ pc = "update"
    /\ pevents = <<>>
    /\ planq.cpu_mode = "Shutdown"
    /\ planq.show_cli_input /\ planq.action_mode = "CliInput"
    /\ sent = MaxEvents + 1

\* C37: whatever device passes and device events there have been (a
\* Startup or BootStage event after the boot has completed, a second
\* power-on), the status bars name "player_location" at most once and at
\* most one sampling timer exists for it.
C37_LocationRegisteredOnce == LocationBars <= 1 /\ LocationSamplers <= 1

\* The four facets of door d say the same: open, transparent, passable and
\* drawn open, or none of these.
FacetsAgree(d) ==
    /\ door_open[d] <=> ~opaque[d]
    /\ door_open[d] <=> d \notin obstructive
    /\ door_open[d] <=> door_glyph[d] = "open_glyph"

\* The events of the tick that open or close door d.
HatchActsOn(d) ==
    {i \in DOMAIN events :
        /\ events[i].etype \in {"ActorOpen", "ActorClose"}
        /\ events[i].context # <<>>
        /\ events[i].context[2] = d}

\* C38: whatever ActorOpen and ActorClose events have been applied to the
\* doors, which start consistent, the four facets of every door agree once
\* the pass has applied its commands: is_open iff not opaque iff not
\* Obstructive iff drawn with the open glyph; and a pass whose last event
\* on a door is an ActorOpen leaves that door open, whether or not it is
\* locked or stuck, and leaves these two flags alone.
C38_DoorFacetsAgree ==
    /\ [](\A d \in Doors : FacetsAgree(d))
    /\ [][(pc = "openable" /\ pc' = After("openable")) =>
            \A d \in Doors :
                /\ HatchActsOn(d) # {} =>
                      LET last == CHOOSE i \in HatchActsOn(d) :
                                     \A k \in HatchActsOn(d) : k <= i
                      IN  door_open'[d] = (events[last].etype = "ActorOpen")
                /\ lockable'[d] = lockable[d]
                /\ door_stuck'[d] = door_stuck[d]]_vars

\* A door that is locked and stuck, and was closed, has been opened.
C38_Witness ==
    /\ sched = DoorSchedule /\ pc = "visibility" /\ ~fault
    /\ events = <<[etype |-> "ActorOpen", dir |-> "X",
                   context |-> <<LMR, Door>>]>>
    /\ lockable[Door].is_locked /\ door_stuck[Door]
    /\ door_open[Door] /\ ~opaque[Door] /\ Door \notin obstructive
    /\ door_glyph[Door] = "open_glyph"

\* The items that exist, have no Position and are carried by the player.
InThePack ==
    {e \in Portables \ despawned :
        posn[e] = NoPosition /\ carrier[e] = Player}

\* The entities inventory_list names.
Listed == {planq.inventory_list[i] : i \in DOMAIN planq.inventory_list}

\* C39: once the systems of a tick have run, whatever ItemMove, ItemDrop
\* and ItemKILL events there have been, is_carried is true iff the carrier
\* of the PLANQ is the player, and inventory_list names exactly the
\* existing items without a Position that the player carries.
C39_PackIsListed ==
    (sched = CarrySchedule /\ pc = "update" /\ ~fault) =>
        /\ planq.is_carried <=> carrier[Planq] = Player
        /\ Listed = InThePack

\* The number of sampling timers of a source.
SamplersOf(source) ==
    Cardinality({i \in DOMAIN samplers : samplers[i].source = source})

\* C40: however often the player has picked the PLANQ up and dropped it,
\* there is at most one sampling timer for each of "planq_mode",
\* "current_time" and "planq_battery".
C40_OneTimerPerSource ==
    \A source \in {"planq_mode", "current_time", "planq_battery"} :
        SamplersOf(source) <= 1

====
